---------------------------- MODULE Spec2Model ----------------------------
(***************************************************************************)
(* A model of the policybot synchronization engine (package syncer):       *)
(* filter-flag parsing, the incremental activity bookmark (handleActivity) *)
(* and the Sync orchestration with its per-run user registry.              *)
(*                                                                         *)
(* The module holds several specifications over one set of variables; each *)
(* specification drives one group of variables and leaves the others at    *)
(* their idle value:                                                       *)
(*   SpecFlags     ConvFilterFlags applied to every bounded filter string  *)
(*   SpecActivity  concurrent handleActivity passes on one repository      *)
(*   SpecSync      one run of Sync, from the fetch to the flush of users   *)
(*   SpecCodeowners    handleCODEOWNERS on every bounded CODEOWNERS file   *)
(*   SpecOwners        handleOWNERS on every bounded tree of OWNERS files  *)
(*   SpecPullRequests  handlePullRequests, page by page                    *)
(*   SpecEvents        handleEvents, page by page                          *)
(*   SpecRefresher     Refresher.Handle on the webhook events delivered    *)
(*   SpecMaintainers   handleMaintainers, one pass per organization        *)
(*   SpecZenHub        handleZenHub on the issues of one repository        *)
(*   SpecRuns          several calls of Sync on one Syncer                 *)
(*   SpecLabeler       Labeler.Handle on a webhook event                   *)
(***************************************************************************)
EXTENDS Integers, Sequences, FiniteSets, TLC

VARIABLES
    filter,      \* the argument of ConvFilterFlags: a string, as a sequence of pieces
    convPc,      \* "call" before ConvFilterFlags ran, "returned" after
    convOut,     \* what ConvFilterFlags returned: the flags and the error
    now,         \* the wall clock: the last instant time.Now() handed out
    botActivity, \* the store's BotActivity table: one row per repository
    ha,          \* per process, the handleActivity call it is in (locals and position)
    fetched,     \* history: the fetch windows whose callback returned success
    history,     \* history: per (repository, field) the values the field has held
    faults,      \* the number of failures the environment has injected so far
    flags,       \* Sync's argument: the FilterFlags of the run
    pc,          \* where the run is in Sync, handleOrg, handleRepo, handleMaintainers
    orgs,        \* Sync's local: the organizations fetched
    repos,       \* Sync's local: the repositories fetched
    orgIdx,      \* the organization the loop of Sync is at
    repoIdx,     \* the repository the loop of handleOrg or handleMaintainers is at
    users,       \* ss.users: the registry of the run, login -> user
    maintainers, \* the map of handleMaintainers, login -> maintainer
    store,       \* the tables of the store that are written wholesale
    syncErr,     \* what Sync returned, once pc is "done"
    registered,  \* history: the users registered in the run, in order
    trace,       \* history: the upstream fetches and store writes of the run, in order
    coSrc,       \* the CODEOWNERS file handed to handleCODEOWNERS, line by line
    coContent,   \* fc.GetContent(): the text of that file
    coUnknown,   \* the logins for which getMaintainer fails
    coPc,        \* where handleCODEOWNERS is
    coLines,     \* handleCODEOWNERS' local: lines
    coIdx,       \* the line the loop of handleCODEOWNERS is at
    coMaintainers, \* the maintainers map handed to handleCODEOWNERS
    owTree,      \* the entries of the tree handleOWNERS gets, each with its OWNERS file
    owUnknown,   \* the logins for which getMaintainer fails
    owPc,        \* where handleOWNERS is
    owIdx,       \* the entry the loop of handleOWNERS is at
    owFiles,     \* handleOWNERS' local: files, path -> parsed file
    owFetched,   \* history: the paths that were downloaded
    owMaintainers, \* the maintainers map handed to handleOWNERS
    prStore,     \* the store's pull requests of the repository, number -> record
    prReviewStore, \* the store's pull request reviews of the repository
    prUsers,     \* the logins handlePullRequests registered with addUsers
    prPc,        \* where handlePullRequests is
    prPage,      \* the page of pull requests the callback was called with
    prIdx,       \* the pull request the loop of the callback is at
    prBatch,     \* the callback's local: storagePRs
    prReviews,   \* the callback's local: storagePRReviews
    prFetches,   \* history: the cache reads and the fetchReviews and fetchFiles calls of the page
    prBefore,    \* history: the store's pull requests when the page arrived
    prWritten,   \* history: the batch WritePullRequests was called with for the page
    prErr,       \* what handlePullRequests returned, once prPc is "done"
    evPc,        \* where handleEvents is
    evPage,      \* the page of raw events the callback was called with
    evSlices,    \* the callback's locals: the five slices of records
    evLog,       \* history: the store writes made for the page
    evErr,       \* what handleEvents returned, once evPc is "done"
    rfRepos,     \* Refresher.repos: the monitored repositories
    rfDelivered, \* the number of webhook events delivered so far
    rfEvent,     \* the event Handle was last called with
    rfCalls,     \* history: the calls Handle made for that event
    rfLog,       \* the event log of the store: the event records appended
    rfCache,     \* the entities written to the cache, by the write that brought them
    mtUsers,     \* ss.users of the run handleMaintainers belongs to
    mtCache,     \* what cache.ReadUser answers for a login: "hit", "miss" (nil, nil) or "err"
    mtUpstream,  \* what Users.Get answers for a login: "ok" or "err"
    mtOrg,       \* the organization of the pass, an index of ConfiguredOrgs
    mtRepos,     \* the repositories handleMaintainers was called with
    mtPc,        \* where handleMaintainers is
    mtIdx,       \* the repository the loop is at
    mtPending,   \* the logins of the ownership file still to resolve
    mtMaintainers, \* the local of handleMaintainers: maintainers
    mtFiles,     \* history: per repository of the pass, the fetch and the handler taken
    mtLookups,   \* history: the getMaintainer calls of the pass
    mtWrites,    \* history: the arguments of the WriteAllMaintainers calls of the run
    zhStored,    \* the issues of the repository in the store, as their number: issues 1..zhStored
    zhPc,        \* where handleZenHub is
    zhIssues,    \* the local of handleZenHub: issues, as issue numbers
    zhIdx,       \* the issue the loop is at
    zhPipelines, \* the local of handleZenHub: pipelines
    zhObtained,  \* history: the pipelines the lookups returned, in order
    zhLooked,    \* history: the answers of the GetIssueData calls, in order
    zhWrites,    \* history: the batches WriteIssuePipelines was called with
    zhErr,       \* what handleZenHub returned, once zhPc is "returned"
    rnPc,        \* where each call of Sync on the Syncer is
    rnUsers,     \* the User Registries: ss.users, by the syncState that holds it
    rnMaintainers, \* the local maintainers of each call's handleMaintainers
    rnFound,     \* history: the logins and the maintainer paths each call came upon itself
    rnBatches,   \* history: the batches each call handed to WriteAllMaintainers and WriteUsers
    lbGlobal,    \* the Labeler's autoLabels: the global rules
    lbRepos,     \* the Labeler's repos: the org-level rules of each monitored repository
    lbPc,        \* "created" until Handle was called, "handled" after
    lbEvent,     \* the event Handle was called with
    lbEnv,       \* what cache.ReadLabel answers for a label name, and whether AddLabelsToIssue fails
    lbCalls      \* history: the calls Handle made on the cache and the upstream API

flagVars == <<filter, convPc, convOut>>

actVars == <<now, botActivity, ha, fetched, history, faults>>

syncVars == <<flags, pc, orgs, repos, orgIdx, repoIdx, users, maintainers, store, syncErr,
              registered, trace>>

coVars == <<coSrc, coContent, coUnknown, coPc, coLines, coIdx, coMaintainers>>

owVars == <<owTree, owUnknown, owPc, owIdx, owFiles, owFetched, owMaintainers>>

prVars == <<prStore, prReviewStore, prUsers, prPc, prPage, prIdx, prBatch,
            prReviews, prFetches, prBefore, prWritten, prErr>>

evVars == <<evPc, evPage, evSlices, evLog, evErr>>

rfVars == <<rfRepos, rfDelivered, rfEvent, rfCalls, rfLog, rfCache>>

mtVars == <<mtUsers, mtCache, mtUpstream, mtOrg, mtRepos, mtPc, mtIdx, mtPending,
            mtMaintainers, mtFiles, mtLookups, mtWrites>>

zhVars == <<zhStored, zhPc, zhIssues, zhIdx, zhPipelines, zhObtained, zhLooked,
            zhWrites, zhErr>>

rnVars == <<rnPc, rnUsers, rnMaintainers, rnFound, rnBatches>>

lbVars == <<lbGlobal, lbRepos, lbPc, lbEvent, lbEnv, lbCalls>>

vars == <<flagVars, actVars, syncVars, coVars, owVars, prVars, evVars, rfVars, mtVars, zhVars, rnVars, lbVars>>

\* what the actions of one group leave unchanged: the variables of the other groups
notFlagVars == <<actVars, syncVars, coVars, owVars, prVars, evVars, rfVars, mtVars, zhVars, rnVars, lbVars>>
notActVars == <<flagVars, syncVars, coVars, owVars, prVars, evVars, rfVars, mtVars, zhVars, rnVars, lbVars>>
notSyncVars == <<flagVars, coVars, owVars, prVars, evVars, rfVars, mtVars, zhVars, rnVars, lbVars>>
notCoVars == <<flagVars, actVars, syncVars, owVars, prVars, evVars, rfVars, mtVars, zhVars, rnVars, lbVars>>
notOwVars == <<flagVars, actVars, syncVars, coVars, prVars, evVars, rfVars, mtVars, zhVars, rnVars, lbVars>>
notPrVars == <<flagVars, actVars, syncVars, coVars, owVars, evVars, rfVars, mtVars, zhVars, rnVars, lbVars>>
notEvVars == <<flagVars, actVars, syncVars, coVars, owVars, prVars, rfVars, mtVars, zhVars, rnVars, lbVars>>
notRfVars == <<flagVars, actVars, syncVars, coVars, owVars, prVars, evVars, mtVars, zhVars, rnVars, lbVars>>
notMtVars == <<flagVars, actVars, syncVars, coVars, owVars, prVars, evVars, rfVars, zhVars, rnVars, lbVars>>
notZhVars == <<flagVars, actVars, syncVars, coVars, owVars, prVars, evVars, rfVars, mtVars, rnVars, lbVars>>
notRnVars == <<flagVars, actVars, syncVars, coVars, owVars, prVars, evVars, rfVars, mtVars, zhVars, lbVars>>
notLbVars == <<flagVars, actVars, syncVars, coVars, owVars, prVars, evVars, rfVars, mtVars, zhVars, rnVars>>

(***************************************************************************)
(* Bounds of the model.                                                    *)
(***************************************************************************)
MaxFilterLen == 4
\* the passes of SpecActivity stop starting once the clock has reached MaxTime
MaxTime == 3
\* the environment (store, upstream API) fails at most MaxFaults times in a behaviour
MaxFaults == 1
\* the handlers of a run discover at most MaxObs users in all
MaxObs == 2
\* the patterns of the CODEOWNERS rules have at most MaxPatternLen pieces
MaxPatternLen == 4
\* the paths of the tree entries have at most MaxDepth segments
MaxDepth == 3

\* the values updated_at takes
MaxStamp == 2
\* the pages of events have at most MaxEvents events
MaxEvents == 2
\* the refresher is delivered at most MaxDelivered events
MaxDelivered == 2

\* the logins an ownership file names
MaxOwners == 2
\* the repository handleZenHub is called for has at most MaxIssues issues
MaxIssues == 201
\* an issue or a pull request of an event has at most MaxLabels labels
MaxLabels == 2

(***************************************************************************)
(* FilterFlags: the bitmask constants.                                     *)
(***************************************************************************)
Issues == 1
Prs == 2
Maintainers == 4
Members == 8
Labels == 16
ZenHub == 32
RepoComments == 64
Events == 128

\* a|b on non-negative integers, bit by bit
RECURSIVE BitOr(_, _)
BitOr(a, b) ==
    IF a = 0 THEN b
    ELSE IF b = 0 THEN a
    ELSE (IF a % 2 = 1 \/ b % 2 = 1 THEN 1 ELSE 0) + 2 * BitOr(a \div 2, b \div 2)

\* a&b on non-negative integers, bit by bit
RECURSIVE BitAnd(_, _)
BitAnd(a, b) ==
    IF a = 0 \/ b = 0 THEN 0
    ELSE (IF a % 2 = 1 /\ b % 2 = 1 THEN 1 ELSE 0) + 2 * BitAnd(a \div 2, b \div 2)

(***************************************************************************)
(* Strings.  A filter string is a sequence of pieces: the separator ","    *)
(* or a non-empty run of other characters (a word).  Adjacent words make   *)
(* one longer token, which equals none of the flag names.                  *)
(***************************************************************************)
FlagNames ==
    {"issues", "prs", "maintainers", "members", "labels", "zenhub", "repocomments", "events"}

FilterAlphabet == FlagNames \cup {"Issues", "bogus", ","}

FilterStrings == UNION {[1..n -> FilterAlphabet] : n \in 0..MaxFilterLen}

\* strings.Split(s, ","): the pieces between separators; n separators give n+1 tokens
RECURSIVE SplitFrom(_, _, _)
SplitFrom(s, i, cur) ==
    IF i > Len(s) THEN <<cur>>
    ELSE IF s[i] = "," THEN <<cur>> \o SplitFrom(s, i + 1, <<>>)
    ELSE SplitFrom(s, i + 1, Append(cur, s[i]))

Split(s) == SplitFrom(s, 1, <<>>)

\* a nil error; an error is a non-empty tuple telling what failed
NoError == <<>>

\* the loop of ConvFilterFlags over the tokens, from token i with the flags so far
RECURSIVE ConvLoop(_, _, _)
ConvLoop(tokens, i, result) ==
    IF i > Len(tokens) THEN [flags |-> result, err |-> NoError]
    ELSE LET f == tokens[i] IN
         CASE f = <<"issues">>       -> ConvLoop(tokens, i + 1, BitOr(result, Issues))
           [] f = <<"prs">>          -> ConvLoop(tokens, i + 1, BitOr(result, Prs))
           [] f = <<"maintainers">>  -> ConvLoop(tokens, i + 1, BitOr(result, Maintainers))
           [] f = <<"members">>      -> ConvLoop(tokens, i + 1, BitOr(result, Members))
           [] f = <<"labels">>       -> ConvLoop(tokens, i + 1, BitOr(result, Labels))
           [] f = <<"zenhub">>       -> ConvLoop(tokens, i + 1, BitOr(result, ZenHub))
           [] f = <<"repocomments">> -> ConvLoop(tokens, i + 1, BitOr(result, RepoComments))
           [] f = <<"events">>       -> ConvLoop(tokens, i + 1, BitOr(result, Events))
           [] OTHER                  -> [flags |-> 0, err |-> <<"unknown filter flag", f>>]

\* the same loop with the slip of returning the flags gathered so far with the error
RECURSIVE ConvLoopPartial(_, _, _)
ConvLoopPartial(tokens, i, result) ==
    IF i > Len(tokens) THEN [flags |-> result, err |-> NoError]
    ELSE LET f == tokens[i] IN
         CASE f = <<"issues">>       -> ConvLoopPartial(tokens, i + 1, BitOr(result, Issues))
           [] f = <<"prs">>          -> ConvLoopPartial(tokens, i + 1, BitOr(result, Prs))
           [] f = <<"maintainers">>  -> ConvLoopPartial(tokens, i + 1, BitOr(result, Maintainers))
           [] f = <<"members">>      -> ConvLoopPartial(tokens, i + 1, BitOr(result, Members))
           [] f = <<"labels">>       -> ConvLoopPartial(tokens, i + 1, BitOr(result, Labels))
           [] f = <<"zenhub">>       -> ConvLoopPartial(tokens, i + 1, BitOr(result, ZenHub))
           [] f = <<"repocomments">> -> ConvLoopPartial(tokens, i + 1, BitOr(result, RepoComments))
           [] f = <<"events">>       -> ConvLoopPartial(tokens, i + 1, BitOr(result, Events))
           [] OTHER                  -> [flags |-> result, err |-> <<"unknown filter flag", f>>]

ConvFilterFlagsPartial(s) ==
    IF s = <<>>
    THEN [flags |-> BitOr(Issues, BitOr(Prs, BitOr(Maintainers, BitOr(Members,
                    BitOr(Labels, BitOr(ZenHub, BitOr(RepoComments, Events))))))),
          err |-> NoError]
    ELSE ConvLoopPartial(Split(s), 1, 0)

ConvFilterFlags(s) ==
    IF s = <<>>
    THEN [flags |-> BitOr(Issues, BitOr(Prs, BitOr(Maintainers, BitOr(Members,
                    BitOr(Labels, BitOr(ZenHub, BitOr(RepoComments, Events))))))),
          err |-> NoError]
    ELSE ConvLoop(Split(s), 1, 0)

(***************************************************************************)
(* The configuration (config.Org: a name and its repositories) and the     *)
(* processes.  "sync" is the Sync run under study; "peer" is a pass of     *)
(* another instance working on the same store.                             *)
(***************************************************************************)
ConfiguredOrgs ==
    << [Name |-> "org1", Repos |-> <<"r1">>],
       [Name |-> "org2", Repos |-> <<>>] >>

RepoKeys ==
    UNION {{[OrgLogin |-> ConfiguredOrgs[i].Name, RepoName |-> ConfiguredOrgs[i].Repos[j]] :
               j \in 1..Len(ConfiguredOrgs[i].Repos)} : i \in 1..Len(ConfiguredOrgs)}

Procs == {"sync", "peer"}

(***************************************************************************)
(* storage.BotActivity: the three bookmark fields handleRepo passes to     *)
(* handleActivity.  Times are instants of the wall clock; 0 is time.Time{}.*)
(***************************************************************************)
Fields ==
    {"LastIssueSyncStart", "LastIssueCommentSyncStart",
     "LastPullRequestReviewCommentSyncStart"}

ZeroTime == 0

ZeroActivity == [f \in Fields |-> ZeroTime]

NoRow == [present |-> FALSE, rec |-> ZeroActivity]

\* store.ReadBotActivity: the row, or nil when there is none or the read failed
ReadBotActivity(table, repo, failed) ==
    IF failed \/ ~table[repo].present
    THEN [found |-> FALSE, activity |-> ZeroActivity]
    ELSE [found |-> TRUE, activity |-> table[repo].rec]

\* a missing bookmark taken to be the present instant (a slip)
PriorStartNowIfMissing(read, field) ==
    IF read.found THEN read.activity[field] ELSE now

\* priorStart := time.Time{}; if activity != nil { priorStart = *getField(activity) }
PriorStart(read, field) ==
    IF read.found THEN read.activity[field] ELSE ZeroTime

\* the callback with the slip of storing the time of the update, not the captured start
UpdateCallbackLate(act, field, priorStart, start) ==
    IF act[field] = priorStart THEN [act EXCEPT ![field] = now + 1] ELSE act

\* the callback with the guard left out
UpdateCallbackUnguarded(act, field, priorStart, start) ==
    [act EXCEPT ![field] = start]

\* the callback handleActivity hands to UpdateBotActivity
UpdateCallback(act, field, priorStart, start) ==
    IF act[field] = priorStart THEN [act EXCEPT ![field] = start] ELSE act

\* store.UpdateBotActivity: in one transaction read the row (a fresh one when
\* there is none), run the callback on it and write it back
UpdateBotActivity(table, repo, field, priorStart, start) ==
    LET cur == IF table[repo].present THEN table[repo].rec ELSE ZeroActivity
    IN [table EXCEPT ![repo] =
            [present |-> TRUE, rec |-> UpdateCallback(cur, field, priorStart, start)]]

FieldValue(table, repo, field) ==
    IF table[repo].present THEN table[repo].rec[field] ELSE ZeroTime

\* the outcomes the environment may give a call: success, and failure while the
\* failures of the behaviour are below MaxFaults
Outcomes == IF faults < MaxFaults THEN {FALSE, TRUE} ELSE {FALSE}

Inject(failed) == faults' = IF failed THEN faults + 1 ELSE faults

\* a process that is in no handleActivity call
NoPass ==
    [pc |-> "idle", repo |-> CHOOSE r \in RepoKeys : TRUE, field |-> "LastIssueSyncStart",
     start |-> ZeroTime, priorStart |-> ZeroTime, err |-> NoError,
     readFailed |-> FALSE, entry |-> ZeroTime, changed |-> FALSE, upd |-> "none", attempts |-> 0,
     before |-> ZeroTime, after |-> ZeroTime, afterRec |-> ZeroActivity,
     doneAt |-> 0]

(***************************************************************************)
(* handleActivity, statement by statement; p is the calling process.       *)
(***************************************************************************)
\* the call: handleActivity(repo, cb, getField)
CallHandleActivity(p, repo, field) ==
    [ha EXCEPT ![p] = [NoPass EXCEPT !.pc = "now", !.repo = repo, !.field = field]]

\* start := time.Now().UTC(); priorStart := time.Time{}
HandleActivityNow(p) ==
    /\ ha[p].pc = "now"
    /\ now' = now + 1
    /\ ha' = [ha EXCEPT ![p].start = now + 1, ![p].priorStart = ZeroTime, ![p].pc = "read"]
    /\ UNCHANGED <<botActivity, fetched, history, faults, notActVars>>

\* if activity, _ := ReadBotActivity(...); activity != nil { priorStart = ... }
HandleActivityRead(p) ==
    /\ ha[p].pc = "read"
    /\ \E failed \in Outcomes :
         LET read == ReadBotActivity(botActivity, ha[p].repo, failed) IN
         /\ ha' = [ha EXCEPT ![p].priorStart = PriorStart(read, ha[p].field),
                             ![p].readFailed = failed,
                             ![p].entry = FieldValue(botActivity, ha[p].repo, ha[p].field),
                             ![p].changed = FALSE,
                             ![p].pc = "cb"]
         /\ Inject(failed)
    /\ UNCHANGED <<now, botActivity, fetched, history, notActVars>>

\* handleActivity going on to the update whatever the callback returned (a slip)
AfterCallbackAlways(err) == "update"

\* if err := cb(repo, priorStart); err != nil { return err }: where the pass goes
AfterCallback(err) == IF err = NoError THEN "update" ELSE "ret"

\* handleActivity returning the error of UpdateBotActivity (a slip)
UpdateResultReturned(failed) == IF failed THEN <<"UpdateBotActivity">> ELSE NoError

\* if err := UpdateBotActivity(...); err != nil { Warnf(...) }; return nil
UpdateResult(failed) == NoError

\* the callback has returned err
CallbackReturns(p, err) ==
    /\ ha' = [ha EXCEPT ![p].err = err, ![p].pc = AfterCallback(err)]
    /\ fetched' = IF err = NoError
                  THEN fetched \cup {[repo |-> ha[p].repo, field |-> ha[p].field,
                                      since |-> ha[p].priorStart, start |-> ha[p].start,
                                      at |-> now]}
                  ELSE fetched

\* the callback of a pass whose handler is not modelled further: it fails or succeeds
HandleActivityCallback(p) ==
    /\ ha[p].pc = "cb"
    /\ \E failed \in Outcomes :
         /\ CallbackReturns(p, IF failed THEN <<"fetch failed">> ELSE NoError)
         /\ Inject(failed)
    /\ UNCHANGED <<now, botActivity, history, notActVars>>

\* if err := UpdateBotActivity(..., func(act) {...}); err != nil { Warnf } ; return nil
HandleActivityUpdate(p) ==
    /\ ha[p].pc = "update"
    /\ \E failed \in Outcomes :
         LET repo == ha[p].repo
             field == ha[p].field
             old == FieldValue(botActivity, repo, field)
             table == IF failed THEN botActivity
                      ELSE UpdateBotActivity(botActivity, repo, field,
                                             ha[p].priorStart, ha[p].start)
             new == FieldValue(table, repo, field)
         IN /\ botActivity' = table
            /\ history' = IF new # old
                          THEN [history EXCEPT ![<<repo, field>>] = Append(@, new)]
                          ELSE history
            /\ ha' = [q \in Procs |->
                        IF q = p
                        THEN [ha[p] EXCEPT !.pc = "ret", !.err = UpdateResult(failed),
                                           !.upd = IF failed THEN "failed" ELSE "ok",
                                           !.attempts = @ + 1,
                                           !.before = old, !.after = new,
                                           !.afterRec = table[repo].rec,
                                           !.doneAt = now]
                        ELSE IF /\ ha[q].pc \in {"cb", "update"}
                                /\ ha[q].repo = repo /\ ha[q].field = field
                                /\ new # old
                             THEN [ha[q] EXCEPT !.changed = TRUE]
                             ELSE ha[q]]
            /\ Inject(failed)
    /\ UNCHANGED <<now, fetched, notActVars>>

\* SpecActivity's caller, in place of handleRepo: a process starts its next pass
\* on the first repository, for one of the two issue bookmarks
PassRepo == CHOOSE r \in RepoKeys : TRUE

PassFields == {"LastIssueSyncStart", "LastIssueCommentSyncStart"}

PassBegin(p) ==
    /\ ha[p].pc \in {"idle", "ret"}
    /\ now < MaxTime
    /\ \E field \in PassFields :
         ha' = CallHandleActivity(p, PassRepo, field)
    /\ UNCHANGED <<now, botActivity, fetched, history, faults, notActVars>>

\* a flag test that is always true (a slip)
HasFlagAlways(f, mask) == TRUE

(***************************************************************************)
(* Sync: the run of one syncState.  The upstream data a handler receives   *)
(* is drawn when the handler runs; every upstream or store call may fail   *)
(* while the failures of the behaviour are below MaxFaults.                *)
(***************************************************************************)
\* flags&mask != 0
HasFlag(f, mask) == BitAnd(f, mask) # 0

RepoPassFlags ==
    BitOr(Members, BitOr(Labels, BitOr(Issues, BitOr(Prs,
        BitOr(ZenHub, BitOr(RepoComments, Events))))))

AllFlags == BitOr(RepoPassFlags, Maintainers)

\* storage.User as the handlers see it: the login and the display name, which
\* listing operations leave empty
Logins == {"alice", "bob"}

\* the snapshots of users the handlers come across: the stub of each login, that
\* has no name, and the full profile of one
UserPool ==
    {[UserLogin |-> l, Name |-> ""] : l \in Logins}
        \cup {[UserLogin |-> "alice", Name |-> "Name"]}

\* the users one handler call discovers: none, or one while the run has
\* registered fewer than MaxObs
Discovered == {<<>>} \cup (IF Len(registered) < MaxObs THEN {<<u>> : u \in UserPool} ELSE {})

\* ss.users[user.UserLogin] = user, keeping the first record of a login (a slip)
AddUserKeepFirst(reg, user) ==
    IF user.UserLogin \in DOMAIN reg THEN reg
    ELSE [l \in DOMAIN reg \cup {user.UserLogin} |->
             IF l = user.UserLogin THEN user ELSE reg[l]]

\* ss.users[user.UserLogin] = user
AddUser(reg, user) ==
    [l \in DOMAIN reg \cup {user.UserLogin} |->
        IF l = user.UserLogin THEN user ELSE reg[l]]

\* addUsers(users...): for _, user := range users { ss.users[user.UserLogin] = user }
RECURSIVE AddUsers(_, _)
AddUsers(reg, us) ==
    IF us = <<>> THEN reg ELSE AddUsers(AddUser(reg, Head(us)), Tail(us))

\* gh.ConvertOrg / gh.ConvertRepo: the storage records of the upstream objects
ConvertOrg(org) == [OrgLogin |-> org.Name]

ConvertRepo(org, name) == [OrgLogin |-> org.Name, RepoName |-> name]

\* fetchRepos: the callback is called for every repository of the configuration
RECURSIVE FetchRepos(_)
FetchRepos(i) ==
    IF i > Len(ConfiguredOrgs) THEN <<>>
    ELSE [j \in 1..Len(ConfiguredOrgs[i].Repos) |->
             ConvertRepo(ConfiguredOrgs[i], ConfiguredOrgs[i].Repos[j])]
         \o FetchRepos(i + 1)

\* fetchOrgs with Sync's callback: per configured organization, append the
\* organization and then everything fetchRepos enumerates
FetchedOrgs == [i \in 1..Len(ConfiguredOrgs) |-> ConvertOrg(ConfiguredOrgs[i])]

RECURSIVE FetchedRepos(_)
FetchedRepos(i) ==
    IF i > Len(ConfiguredOrgs) THEN <<>> ELSE FetchRepos(1) \o FetchedRepos(i + 1)

RepoOf(r) == [OrgLogin |-> r.OrgLogin, RepoName |-> r.RepoName]

\* the inner loop of Sync with the test on the owning organization left out (a slip)
OrgReposUnfiltered(rs, org) == rs

\* for _, repo := range repos { if repo.OrgLogin == org.OrgLogin { append } }
OrgRepos(rs, org) == SelectSeq(rs, LAMBDA r : r.OrgLogin = org.OrgLogin)

\* one entry of the history of a run: an upstream fetch or a store write, where,
\* whether it succeeded, and for WriteUsers the batch handed over
Op(name, org, repo, ok) ==
    [op |-> name, org |-> org, repo |-> repo, ok |-> ok, arg |-> <<>>]

\* a Go map with no entry
EmptyMap == [l \in {} |-> l]

\* the tables of the store the run overwrites wholesale
EmptyStore == [orgs |-> <<>>, repos |-> <<>>, users |-> <<>>, maintainers |-> {}]

CurOrg == orgs[orgIdx]

CurRepos == OrgRepos(repos, CurOrg)

CurRepo == CurRepos[repoIdx]

\* Sync noting the error and going on to the flush of the users (a slip)
AbortAfterFlush(err) == pc' = "pushUsers" /\ syncErr' = err

\* return err: Sync ends with the error
Abort(err) == pc' = "done" /\ syncErr' = err

SyncIdle ==
    /\ flags = 0
    /\ pc = "done"
    /\ orgs = <<>>
    /\ repos = <<>>
    /\ orgIdx = 0
    /\ repoIdx = 0
    /\ users = EmptyMap
    /\ registered = <<>>
    /\ trace = <<>>
    /\ syncErr = NoError
    /\ store = EmptyStore
    /\ maintainers = EmptyMap

\* s.fetchOrgs(ctx, func(org) { orgs = append(...); return s.fetchRepos(...) })
FetchOrgsAndRepos ==
    /\ pc = "fetch"
    /\ \E failed \in Outcomes :
         /\ Inject(failed)
         /\ trace' = Append(trace, Op("fetchOrgs", "", "", ~failed))
         /\ IF failed
            THEN Abort(<<"fetchOrgs">>) /\ UNCHANGED <<orgs, repos>>
            ELSE /\ orgs' = FetchedOrgs
                 /\ repos' = FetchedRepos(1)
                 /\ pc' = "writeOrgs"
                 /\ UNCHANGED syncErr
    /\ UNCHANGED <<flags, orgIdx, repoIdx, users, registered, store, maintainers>>
    /\ UNCHANGED <<now, botActivity, ha, fetched, history, notSyncVars>>

\* if err := s.store.WriteOrgs(ctx, orgs); err != nil { return err }
WriteOrgs ==
    /\ pc = "writeOrgs"
    /\ \E failed \in Outcomes :
         /\ Inject(failed)
         /\ trace' = Append(trace, Op("WriteOrgs", "", "", ~failed))
         /\ IF failed
            THEN Abort(<<"WriteOrgs">>) /\ UNCHANGED store
            ELSE /\ store' = [store EXCEPT !.orgs = orgs]
                 /\ pc' = "writeRepos"
                 /\ UNCHANGED syncErr
    /\ UNCHANGED <<flags, orgs, repos, orgIdx, repoIdx, users, registered, maintainers>>
    /\ UNCHANGED <<now, botActivity, ha, fetched, history, notSyncVars>>

\* if err := s.store.WriteRepos(ctx, repos); err != nil { return err }
WriteRepos ==
    /\ pc = "writeRepos"
    /\ \E failed \in Outcomes :
         /\ Inject(failed)
         /\ trace' = Append(trace, Op("WriteRepos", "", "", ~failed))
         /\ IF failed
            THEN Abort(<<"WriteRepos">>) /\ UNCHANGED <<store, orgIdx>>
            ELSE /\ store' = [store EXCEPT !.repos = repos]
                 /\ pc' = "org"
                 /\ orgIdx' = 1
                 /\ UNCHANGED syncErr
    /\ UNCHANGED <<flags, orgs, repos, repoIdx, users, registered, maintainers>>
    /\ UNCHANGED <<now, botActivity, ha, fetched, history, notSyncVars>>

\* for _, org := range orgs { ...; if flags&(Members|...) != 0 { handleOrg } ... }
OrgLoop ==
    /\ pc = "org"
    /\ IF orgIdx > Len(orgs)
       THEN pc' = "pushUsers" /\ UNCHANGED repoIdx
       ELSE IF HasFlag(flags, RepoPassFlags)
            THEN pc' = "repo" /\ repoIdx' = 1
            ELSE pc' = "maintainers" /\ repoIdx' = 1
    /\ UNCHANGED <<flags, orgs, repos, orgIdx, users, registered, trace, syncErr, store,
                   maintainers>>
    /\ UNCHANGED <<actVars, notSyncVars>>

\* handleOrg: for _, repo := range repos { handleRepo(repo) }, then the members
RepoLoop ==
    /\ pc = "repo"
    /\ IF repoIdx > Len(CurRepos)
       THEN pc' = "members" /\ UNCHANGED trace
       ELSE /\ pc' = "labels"
            /\ trace' = Append(trace, Op("handleRepo", CurRepo.OrgLogin, CurRepo.RepoName, TRUE))
    /\ UNCHANGED <<flags, orgs, repos, orgIdx, repoIdx, users, registered, syncErr, store,
                   maintainers>>
    /\ UNCHANGED <<actVars, notSyncVars>>

\* a handler whose flag is not set: handleRepo goes on to the next statement
Skip(nextPc) ==
    /\ pc' = nextPc
    /\ UNCHANGED <<users, registered, trace, syncErr, faults>>

\* a handler without a bookmark: it fetches, converts (registering the users it
\* discovers when observes) and writes; an error of the fetch or the write is returned
RunHandler(name, org, repo, nextPc, observes) ==
    \E failed \in Outcomes :
      \E us \in (IF observes THEN Discovered ELSE {<<>>}) :
        /\ Inject(failed)
        /\ trace' = Append(trace, Op(name, org, repo, ~failed))
        /\ users' = AddUsers(users, us)
        /\ registered' = registered \o us
        /\ IF failed THEN Abort(<<name, org, repo>>)
                     ELSE pc' = nextPc /\ UNCHANGED syncErr

\* the callback of a handleActivity call of the run: the handler fetches since
\* priorStart, registers the users it discovers and writes
RunCallback(name) ==
    \E failed \in Outcomes :
      \E us \in Discovered :
        /\ Inject(failed)
        /\ trace' = Append(trace, Op(name, CurRepo.OrgLogin, CurRepo.RepoName, ~failed))
        /\ users' = AddUsers(users, us)
        /\ registered' = registered \o us
        /\ CallbackReturns("sync",
               IF failed THEN <<name, CurRepo.OrgLogin, CurRepo.RepoName>> ELSE NoError)

syncLocals == <<flags, orgs, repos, orgIdx, repoIdx, store, maintainers>>

\* if ss.flags&Labels != 0 { if err := ss.handleLabels(repo); err != nil { return err } }
HandleLabels ==
    /\ pc = "labels"
    /\ IF ~HasFlag(flags, Labels) THEN Skip("issues")
       ELSE RunHandler("handleLabels", CurRepo.OrgLogin, CurRepo.RepoName, "issues", FALSE)
    /\ UNCHANGED <<syncLocals, now, botActivity, ha, fetched, history, notSyncVars>>

\* if ss.flags&Issues != 0 { ss.handleActivity(repo, ss.handleIssues, ...) ... }
StartIssues ==
    /\ pc = "issues"
    /\ IF ~HasFlag(flags, Issues)
       THEN pc' = "zenhub" /\ UNCHANGED ha
       ELSE /\ pc' = "issues.ha"
            /\ ha' = CallHandleActivity("sync", RepoOf(CurRepo), "LastIssueSyncStart")
    /\ UNCHANGED <<syncLocals, users, registered, trace, syncErr>>
    /\ UNCHANGED <<now, botActivity, fetched, history, faults, notSyncVars>>

\* handleIssues, called back by handleActivity
HandleIssues ==
    /\ pc = "issues.ha"
    /\ ha["sync"].pc = "cb"
    /\ RunCallback("handleIssues")
    /\ UNCHANGED <<syncLocals, pc, syncErr, now, botActivity, history, notSyncVars>>

\* ss.handleActivity(repo, ss.handleIssueComments, ...)
StartIssueComments ==
    /\ pc = "issueComments"
    /\ pc' = "issueComments.ha"
    /\ ha' = CallHandleActivity("sync", RepoOf(CurRepo), "LastIssueCommentSyncStart")
    /\ UNCHANGED <<syncLocals, users, registered, trace, syncErr>>
    /\ UNCHANGED <<now, botActivity, fetched, history, faults, notSyncVars>>

\* handleIssueComments, called back by handleActivity
HandleIssueComments ==
    /\ pc = "issueComments.ha"
    /\ ha["sync"].pc = "cb"
    /\ RunCallback("handleIssueComments")
    /\ UNCHANGED <<syncLocals, pc, syncErr, now, botActivity, history, notSyncVars>>

\* if ss.flags&ZenHub != 0 { if err := ss.handleZenHub(repo); err != nil { return err } }
HandleZenHub ==
    /\ pc = "zenhub"
    /\ IF ~HasFlag(flags, ZenHub) THEN Skip("prs")
       ELSE RunHandler("handleZenHub", CurRepo.OrgLogin, CurRepo.RepoName, "prs", FALSE)
    /\ UNCHANGED <<syncLocals, now, botActivity, ha, fetched, history, notSyncVars>>

\* if ss.flags&Prs != 0 { if err := ss.handlePullRequests(repo); err != nil { return err } ...
HandlePullRequests ==
    /\ pc = "prs"
    /\ IF ~HasFlag(flags, Prs) THEN Skip("repoComments")
       ELSE RunHandler("handlePullRequests", CurRepo.OrgLogin, CurRepo.RepoName,
                       "prComments", TRUE)
    /\ UNCHANGED <<syncLocals, now, botActivity, ha, fetched, history, notSyncVars>>

\* ss.handleActivity(repo, ss.handlePullRequestReviewComments, ...)
StartPullRequestReviewComments ==
    /\ pc = "prComments"
    /\ pc' = "prComments.ha"
    /\ ha' = CallHandleActivity("sync", RepoOf(CurRepo),
                                "LastPullRequestReviewCommentSyncStart")
    /\ UNCHANGED <<syncLocals, users, registered, trace, syncErr>>
    /\ UNCHANGED <<now, botActivity, fetched, history, faults, notSyncVars>>

\* handlePullRequestReviewComments, called back by handleActivity
HandlePullRequestReviewComments ==
    /\ pc = "prComments.ha"
    /\ ha["sync"].pc = "cb"
    /\ RunCallback("handlePullRequestReviewComments")
    /\ UNCHANGED <<syncLocals, pc, syncErr, now, botActivity, history, notSyncVars>>

\* handleRepo without the second handleActivity call of the issues (a slip)
AfterActivityPcSkipping(at) ==
    CASE at = "issues.ha"        -> "zenhub"
      [] at = "issueComments.ha" -> "zenhub"
      [] at = "prComments.ha"    -> "repoComments"

\* where handleRepo goes on after a handleActivity call that returned nil
AfterActivityPc(at) ==
    CASE at = "issues.ha"        -> "issueComments"
      [] at = "issueComments.ha" -> "zenhub"
      [] at = "prComments.ha"    -> "repoComments"

\* if err := ss.handleActivity(...); err != nil { return err }
\* (the history gets the UpdateBotActivity call the pass made, if it made one)
AfterActivity ==
    /\ pc \in {"issues.ha", "issueComments.ha", "prComments.ha"}
    /\ ha["sync"].pc = "ret"
    /\ trace' = IF ha["sync"].attempts > 0
                THEN Append(trace, Op("UpdateBotActivity", CurRepo.OrgLogin,
                                      CurRepo.RepoName, ha["sync"].upd = "ok"))
                ELSE trace
    /\ IF ha["sync"].err # NoError
       THEN Abort(ha["sync"].err)
       ELSE pc' = AfterActivityPc(pc) /\ UNCHANGED syncErr
    /\ ha' = [ha EXCEPT !["sync"].pc = "idle"]
    /\ UNCHANGED <<syncLocals, users, registered>>
    /\ UNCHANGED <<now, botActivity, fetched, history, faults, notSyncVars>>

\* if ss.flags&RepoComments != 0 { ... ss.handleRepoComments(repo) ... }
HandleRepoComments ==
    /\ pc = "repoComments"
    /\ IF ~HasFlag(flags, RepoComments) THEN Skip("events")
       ELSE RunHandler("handleRepoComments", CurRepo.OrgLogin, CurRepo.RepoName,
                       "events", TRUE)
    /\ UNCHANGED <<syncLocals, now, botActivity, ha, fetched, history, notSyncVars>>

\* if ss.flags&Events != 0 { ... ss.handleEvents(repo) ... }; return nil: the next repo
HandleEvents ==
    /\ pc = "events"
    /\ IF ~HasFlag(flags, Events) THEN Skip("repo")
       ELSE RunHandler("handleEvents", CurRepo.OrgLogin, CurRepo.RepoName, "repo", FALSE)
    /\ repoIdx' = IF pc' = "repo" THEN repoIdx + 1 ELSE repoIdx
    /\ UNCHANGED <<flags, orgs, repos, orgIdx, store, maintainers>>
    /\ UNCHANGED <<now, botActivity, ha, fetched, history, notSyncVars>>

\* if ss.flags&Members != 0 { ... ss.handleMembers(org) ... }; handleOrg returns
HandleMembers ==
    /\ pc = "members"
    /\ IF ~HasFlag(flags, Members) THEN Skip("maintainers")
       ELSE RunHandler("handleMembers", CurOrg.OrgLogin, "", "maintainers", TRUE)
    /\ UNCHANGED <<syncLocals, now, botActivity, ha, fetched, history, notSyncVars>>

\* the test nested in the one of the repository pass (a slip)
MaintainersEnabledNested(f) == HasFlag(f, Maintainers) /\ HasFlag(f, RepoPassFlags)

\* flags&Maintainers != 0
MaintainersEnabled(f) == HasFlag(f, Maintainers)

\* if flags&Maintainers != 0 { handleMaintainers(org, orgRepos) }; the next organization
StartMaintainers ==
    /\ pc = "maintainers"
    /\ IF ~MaintainersEnabled(flags)
       THEN pc' = "org" /\ orgIdx' = orgIdx + 1 /\ UNCHANGED <<repoIdx, maintainers>>
       ELSE pc' = "maint.repo" /\ repoIdx' = 1 /\ maintainers' = EmptyMap
            /\ UNCHANGED orgIdx
    /\ UNCHANGED <<flags, orgs, repos, store, users, registered, trace, syncErr>>
    /\ UNCHANGED <<actVars, notSyncVars>>

\* gh.ConvertUser of the full profile the upstream lookup by login returns
UpstreamUser(login) == [UserLogin |-> login, Name |-> "Name"]

\* the user the persistent cache holds for a login
CachedUser(login) == [UserLogin |-> login, Name |-> "Name"]

\* what the lookups of getMaintainer can meet for a login: the registry has it, or
\* the cache has it, fails, or misses with the upstream lookup succeeding or failing
ResolveEnvs(login) ==
    IF login \in DOMAIN users THEN {"registry"}
    ELSE {"cacheHit"}
         \cup (IF Len(registered) < MaxObs THEN {"upstreamOk"} ELSE {})
         \cup (IF faults < MaxFaults THEN {"cacheErr", "upstreamErr"} ELSE {})

\* getMaintainer(org, maintainers, login): the registry and the map afterwards, the
\* users it registered, and the login of the record it returns ("" with an error)
GetMaintainer(reg, ms, org, login, env) ==
    IF env \in {"cacheErr", "upstreamErr"}
    THEN [users |-> reg, registered |-> <<>>, maintainers |-> ms, login |-> "",
          err |-> <<"getMaintainer", login>>]
    ELSE LET user == CASE env = "registry"   -> reg[login]
                       [] env = "cacheHit"   -> CachedUser(login)
                       [] env = "upstreamOk" -> UpstreamUser(login)
             reg2 == IF env = "upstreamOk" THEN AddUser(reg, user) ELSE reg
             ms2 == IF user.UserLogin \in DOMAIN ms THEN ms
                    ELSE [l \in DOMAIN ms \cup {user.UserLogin} |->
                             IF l = user.UserLogin
                             THEN [OrgLogin |-> org.OrgLogin, UserLogin |-> user.UserLogin,
                                   Paths |-> <<>>]
                             ELSE ms[l]]
         IN [users |-> reg2,
             registered |-> IF env = "upstreamOk" THEN <<user>> ELSE <<>>,
             maintainers |-> ms2, login |-> user.UserLogin, err |-> NoError]

\* the errors handleCODEOWNERS and handleOWNERS return for a repository
RepoFailures ==
    {"CODEOWNERS body", "commit list", "tree", "OWNERS download", "OWNERS body",
     "OWNERS parse"}

\* handleMaintainers returning the error of a repository (a slip)
RepoMaintainersResultReturned(kind) == <<"maintainersOfRepo", kind>>

\* if err != nil { scope.Warnf("Unable to establish maintainers ...") }: the loop goes on
RepoMaintainersResult(kind) == NoError

\* handleMaintainers, one repository: the ownership file is read and each login
\* it names is resolved; an error for the repository is logged and the loop goes on
HandleMaintainersRepo ==
    /\ pc = "maint.repo"
    /\ repoIdx <= Len(CurRepos)
    /\ \E failed \in Outcomes :
         IF failed
         THEN \E kind \in RepoFailures :
                /\ trace' = Append(trace, Op("maintainersOfRepo", CurRepo.OrgLogin,
                                             CurRepo.RepoName, FALSE))
                /\ Inject(TRUE)
                /\ IF RepoMaintainersResult(kind) # NoError
                   THEN Abort(RepoMaintainersResult(kind)) /\ UNCHANGED repoIdx
                   ELSE repoIdx' = repoIdx + 1 /\ UNCHANGED <<pc, syncErr>>
                /\ UNCHANGED <<users, registered, maintainers>>
         ELSE /\ trace' = Append(trace, Op("maintainersOfRepo", CurRepo.OrgLogin,
                                           CurRepo.RepoName, TRUE))
              /\ repoIdx' = repoIdx + 1
              /\ UNCHANGED <<pc, syncErr>>
              /\ \E login \in Logins \cup {""} :
                   IF login = ""
                   THEN Inject(FALSE) /\ UNCHANGED <<users, registered, maintainers>>
                   ELSE \E env \in ResolveEnvs(login) :
                          LET g == GetMaintainer(users, maintainers, CurOrg, login, env) IN
                          /\ Inject(g.err # NoError)
                          /\ users' = g.users
                          /\ registered' = registered \o g.registered
                          /\ maintainers' =
                                IF g.err # NoError THEN maintainers
                                ELSE [g.maintainers EXCEPT ![g.login].Paths =
                                         Append(@, <<CurRepo.RepoName, "/">>)]
    /\ UNCHANGED <<flags, orgs, repos, orgIdx, store>>
    /\ UNCHANGED <<now, botActivity, ha, fetched, history, notSyncVars>>

\* return ss.syncer.store.WriteAllMaintainers(ctx, storageMaintainers)
WriteAllMaintainers ==
    /\ pc = "maint.repo"
    /\ repoIdx > Len(CurRepos)
    /\ \E failed \in Outcomes :
         /\ Inject(failed)
         /\ trace' = Append(trace, Op("WriteAllMaintainers", CurOrg.OrgLogin, "", ~failed))
         /\ IF failed
            THEN Abort(<<"WriteAllMaintainers", CurOrg.OrgLogin>>) /\ UNCHANGED <<store, orgIdx>>
            ELSE /\ store' = [store EXCEPT !.maintainers =
                                 {maintainers[l] : l \in DOMAIN maintainers}]
                 /\ pc' = "org"
                 /\ orgIdx' = orgIdx + 1
                 /\ UNCHANGED syncErr
    /\ UNCHANGED <<flags, orgs, repos, repoIdx, users, registered, maintainers>>
    /\ UNCHANGED <<now, botActivity, ha, fetched, history, notSyncVars>>

\* the orders in which a range over a map can visit its keys
Orders(S) ==
    {f \in [1..Cardinality(S) -> S] : \A i, j \in 1..Cardinality(S) : i # j => f[i] # f[j]}

\* pushUsers with the slip of looking up every user
LookupNeededAlways(user) == TRUE

\* if user.Name == "": the user is looked up by login
LookupNeeded(user) == user.Name = ""

\* pushUsers with the slip of leaving out a user whose profile lookup failed
BatchEntrySkipping(user, lookupFailed) ==
    IF LookupNeeded(user) /\ lookupFailed THEN <<>>
    ELSE IF LookupNeeded(user) THEN <<UpstreamUser(user.UserLogin)>>
    ELSE <<user>>

\* the body of the loop of pushUsers: a user without a name is looked up and, if
\* that succeeds, replaced by the full profile; the user is appended
BatchEntry(user, lookupFailed) ==
    IF LookupNeeded(user) /\ ~lookupFailed THEN <<UpstreamUser(user.UserLogin)>>
    ELSE <<user>>

RECURSIVE BuildBatch(_, _, _, _)
BuildBatch(reg, order, i, lookupsFailed) ==
    IF i > Len(order) THEN <<>>
    ELSE BatchEntry(reg[order[i]], order[i] \in lookupsFailed)
         \o BuildBatch(reg, order, i + 1, lookupsFailed)

\* the calls of client.Users.Get the loop of pushUsers makes, in its order, each
\* with the user it is made for
RECURSIVE UserLookups(_, _, _, _)
UserLookups(reg, order, i, lookupsFailed) ==
    IF i > Len(order) THEN <<>>
    ELSE (IF LookupNeeded(reg[order[i]])
          THEN <<[Op("Users.Get", "", "", order[i] \notin lookupsFailed)
                     EXCEPT !.arg = <<reg[order[i]]>>]>>
          ELSE <<>>)
         \o UserLookups(reg, order, i + 1, lookupsFailed)

\* if err := ss.pushUsers(); err != nil { return err }; return nil
PushUsers ==
    /\ pc = "pushUsers"
    /\ \E lookupsFailed \in SUBSET {l \in DOMAIN users : LookupNeeded(users[l])} :
         /\ faults + Cardinality(lookupsFailed) <= MaxFaults
         /\ \E order \in Orders(DOMAIN users) :
              \E failed \in (IF faults + Cardinality(lookupsFailed) < MaxFaults
                             THEN {FALSE, TRUE} ELSE {FALSE}) :
                LET batch == BuildBatch(users, order, 1, lookupsFailed) IN
                /\ faults' = faults + Cardinality(lookupsFailed) + (IF failed THEN 1 ELSE 0)
                /\ trace' = trace \o UserLookups(users, order, 1, lookupsFailed)
                                  \o <<[Op("WriteUsers", "", "", ~failed)
                                           EXCEPT !.arg = batch]>>
                /\ store' = IF failed THEN store ELSE [store EXCEPT !.users = batch]
                /\ pc' = "done"
                /\ syncErr' = IF failed THEN <<"WriteUsers">> ELSE NoError
    /\ UNCHANGED <<flags, orgs, repos, orgIdx, repoIdx, users, registered, maintainers>>
    /\ UNCHANGED <<now, botActivity, ha, fetched, history, notSyncVars>>

(***************************************************************************)
(* handleCODEOWNERS.  A string is a sequence of pieces: a piece is one of  *)
(* the characters the code looks at, or a word that has none of them.      *)
(***************************************************************************)
\* the pieces unicode.IsSpace holds for (strings.Fields), inside one line
WhiteSpace == {" ", "\t", "\r"}

\* the cutset of strings.Trim(line, " \t")
TrimCutset == {" ", "\t"}

RECURSIVE TrimLeft(_, _)
TrimLeft(s, cutset) ==
    IF s # <<>> /\ Head(s) \in cutset THEN TrimLeft(Tail(s), cutset) ELSE s

RECURSIVE TrimRight(_, _)
TrimRight(s, cutset) ==
    IF s # <<>> /\ s[Len(s)] \in cutset THEN TrimRight(SubSeq(s, 1, Len(s) - 1), cutset)
    ELSE s

\* strings.Trim(s, cutset)
Trim(s, cutset) == TrimRight(TrimLeft(s, cutset), cutset)

\* strings.Fields(s): the maximal runs of pieces that are not white space
RECURSIVE FieldsFrom(_, _, _)
FieldsFrom(s, i, cur) ==
    LET done == IF cur = <<>> THEN <<>> ELSE <<cur>> IN
    IF i > Len(s) THEN done
    ELSE IF s[i] \in WhiteSpace THEN done \o FieldsFrom(s, i + 1, <<>>)
    ELSE FieldsFrom(s, i + 1, Append(cur, s[i]))

StringsFields(s) == FieldsFrom(s, 1, <<>>)

\* strings.HasPrefix(s, prefix), strings.HasSuffix(s, suffix)
HasPrefix(s, prefix) == Len(s) >= Len(prefix) /\ SubSeq(s, 1, Len(prefix)) = prefix

HasSuffix(s, suffix) ==
    Len(s) >= Len(suffix) /\ SubSeq(s, Len(s) - Len(suffix) + 1, Len(s)) = suffix

\* strings.TrimPrefix(s, prefix), strings.TrimSuffix(s, suffix)
TrimPrefix(s, prefix) ==
    IF HasPrefix(s, prefix) THEN SubSeq(s, Len(prefix) + 1, Len(s)) ELSE s

TrimSuffix(s, suffix) ==
    IF HasSuffix(s, suffix) THEN SubSeq(s, 1, Len(s) - Len(suffix)) ELSE s

\* strings.Split(content, "\n")
RECURSIVE SplitLinesFrom(_, _, _)
SplitLinesFrom(s, i, cur) ==
    IF i > Len(s) THEN <<cur>>
    ELSE IF s[i] = "\n" THEN <<cur>> \o SplitLinesFrom(s, i + 1, <<>>)
    ELSE SplitLinesFrom(s, i + 1, Append(cur, s[i]))

SplitLines(s) == SplitLinesFrom(s, 1, <<>>)

\* path := TrimPrefix(fields[0], "/"); path = TrimSuffix(path, "/*"); "*" becomes ""
CodeownersPath(pattern) ==
    LET path == TrimSuffix(TrimPrefix(pattern, <<"/">>), <<"/", "*">>)
    IN IF path = <<"*">> THEN <<>> ELSE path

\* the lookups of getMaintainer for a login of an ownership file: they fail for
\* the logins of unknown, and the cache has the others
FileLookup(login, unknown) == IF login \in unknown THEN "cacheErr" ELSE "cacheHit"

\* for _, login := range logins { ... getMaintainer ...; Paths = append(Paths, ...) }
RECURSIVE CodeownersLogins(_, _, _, _, _, _)
CodeownersLogins(ms, org, repoName, pattern, logins, unknown) ==
    IF logins = <<>> THEN ms
    ELSE LET login == TrimPrefix(Head(logins), <<"@">>)
             g == GetMaintainer(EmptyMap, ms, org, login, FileLookup(login, unknown))
             ms2 == IF g.err # NoError THEN ms
                    ELSE [g.maintainers EXCEPT ![g.login].Paths =
                             Append(@, <<repoName, "/">> \o CodeownersPath(pattern))]
         IN CodeownersLogins(ms2, org, repoName, pattern, Tail(logins), unknown)

\* the body of the loop over the lines: the map afterwards, or the run-time panic
\* of fields[1:] when the line has no field
CodeownersLine(ms, org, repoName, line, unknown) ==
    LET l == Trim(line, TrimCutset)
        fields == StringsFields(l)
    IN IF HasPrefix(l, <<"#">>) \/ l = <<>> THEN [panic |-> FALSE, maintainers |-> ms]
       ELSE IF Len(fields) = 0 THEN [panic |-> TRUE, maintainers |-> ms]
       ELSE [panic |-> FALSE,
             maintainers |-> CodeownersLogins(ms, org, repoName, fields[1], Tail(fields),
                                              unknown)]

\* the CODEOWNERS files of SpecCodeowners, line by line: a rule is an indent, a
\* pattern, logins separated by a space, and a tail; a blank line is white space
PatternPieces == {"/", "*", "a/b"}

Patterns == UNION {[1..n -> PatternPieces] : n \in 1..MaxPatternLen}

LoginTokens == {<<"@", "alice">>, <<"bob">>}

LoginLists ==
    {<<>>, <<<<"@", "alice">>>>, <<<<"bob">>>>, <<<<"@", "alice">>, <<"bob">>>>,
     <<<<"bob">>, <<"@", "alice">>, <<"bob">>>>}

SourceLine(kind, indent, pattern, logins, tail) ==
    [kind |-> kind, indent |-> indent, pattern |-> pattern, logins |-> logins, tail |-> tail]

RuleLines ==
    {SourceLine("rule", i, p, ls, t) :
        i \in {<<>>, <<" ", "\t">>}, p \in Patterns, ls \in LoginLists, t \in {<<>>, <<"\r">>}}

BlankLines ==
    {SourceLine("blank", w, <<>>, <<>>, <<>>) : w \in {<<>>, <<" ">>, <<"\t", " ">>, <<"\r">>}}

CommentLines ==
    {SourceLine("comment", i, <<"#", " ", "@", "alice">>, <<>>, <<>>) : i \in {<<>>, <<"\t">>}}

\* the lines a file of two lines begins with
LeadLines ==
    {SourceLine("blank", <<>>, <<>>, <<>>, <<>>),
     SourceLine("comment", <<>>, <<"#", "a/b">>, <<>>, <<>>),
     SourceLine("rule", <<>>, <<"a/b">>, <<<<"@", "alice">>>>, <<>>)}

CodeownersSources ==
    LET lines == RuleLines \cup BlankLines \cup CommentLines
    IN {<<l>> : l \in lines} \cup {<<lead, l>> : lead \in LeadLines, l \in lines}

\* the text of a line and of a file
RECURSIVE RenderLogins(_)
RenderLogins(ls) ==
    IF ls = <<>> THEN <<>> ELSE <<" ">> \o Head(ls) \o RenderLogins(Tail(ls))

RenderLine(l) == l.indent \o l.pattern \o RenderLogins(l.logins) \o l.tail

RECURSIVE RenderFile(_)
RenderFile(ls) ==
    IF Len(ls) = 1 THEN RenderLine(ls[1])
    ELSE RenderLine(Head(ls)) \o <<"\n">> \o RenderFile(Tail(ls))

\* the organization and the repository of the file
FileOrg == ConvertOrg(ConfiguredOrgs[1])

FileRepoName == ConfiguredOrgs[1].Repos[1]

CoIdle ==
    /\ coSrc = <<>>
    /\ coContent = <<>>
    /\ coUnknown = {}
    /\ coPc = "idle"
    /\ coLines = <<>>
    /\ coIdx = 0
    /\ coMaintainers = EmptyMap

\* handleCODEOWNERS(org, repo, maintainers, fc) is called
CodeownersCalled ==
    /\ coSrc \in CodeownersSources
    /\ coContent = RenderFile(coSrc)
    /\ coUnknown \in {{}, {<<"bob">>}}
    /\ coPc = "getContent"
    /\ coLines = <<>>
    /\ coIdx = 0
    /\ coMaintainers = EmptyMap

\* content, err := fc.GetContent(); if err != nil { return err }; lines := Split
CodeownersGetContent ==
    /\ coPc = "getContent"
    /\ \E failed \in BOOLEAN :
         IF failed
         THEN coPc' = "error" /\ UNCHANGED <<coLines, coIdx>>
         ELSE coPc' = "lines" /\ coLines' = SplitLines(coContent) /\ coIdx' = 1
    /\ UNCHANGED <<coSrc, coContent, coUnknown, coMaintainers, notCoVars>>

\* one turn of the loop over the lines
CodeownersNextLine ==
    /\ coPc = "lines"
    /\ coIdx <= Len(coLines)
    /\ LET r == CodeownersLine(coMaintainers, FileOrg, FileRepoName, coLines[coIdx],
                               coUnknown)
       IN /\ coMaintainers' = r.maintainers
          /\ coPc' = IF r.panic THEN "panic" ELSE "lines"
          /\ coIdx' = IF r.panic THEN coIdx ELSE coIdx + 1
    /\ UNCHANGED <<coSrc, coContent, coUnknown, coLines, notCoVars>>

\* return nil
CodeownersReturn ==
    /\ coPc = "lines"
    /\ coIdx > Len(coLines)
    /\ coPc' = "returned"
    /\ UNCHANGED <<coSrc, coContent, coUnknown, coLines, coIdx, coMaintainers, notCoVars>>

(***************************************************************************)
(* handleOWNERS.  The path of a tree entry is a sequence of pieces, its    *)
(* segments with "/" between them; an OWNERS file is what yaml.Unmarshal   *)
(* makes of its body.                                                      *)
(***************************************************************************)
\* strings.Split(entry.GetPath(), "/")
RECURSIVE SplitPathFrom(_, _, _)
SplitPathFrom(s, i, cur) ==
    IF i > Len(s) THEN <<cur>>
    ELSE IF s[i] = "/" THEN <<cur>> \o SplitPathFrom(s, i + 1, <<>>)
    ELSE SplitPathFrom(s, i + 1, Append(cur, s[i]))

SplitPath(s) == SplitPathFrom(s, 1, <<>>)

\* the test with the vendor directory not left out (a slip)
OwnersWantedAnywhere(components) ==
    components[Len(components)] = <<"OWNERS">>

\* components[len(components)-1] == "OWNERS" && components[0] != "vendor"
OwnersWanted(components) ==
    /\ components[Len(components)] = <<"OWNERS">>
    /\ components[1] # <<"vendor">>

\* for _, user := range file.Approvers { getMaintainer; Paths = append(Paths, ...) }
RECURSIVE OwnersApprovers(_, _, _, _, _, _)
OwnersApprovers(ms, org, repoName, path, approvers, unknown) ==
    IF approvers = <<>> THEN ms
    ELSE LET user == Head(approvers)
             g == GetMaintainer(EmptyMap, ms, org, user, FileLookup(user, unknown))
             ms2 == IF g.err # NoError THEN ms
                    ELSE [g.maintainers EXCEPT ![g.login].Paths =
                             Append(@, <<repoName, "/">> \o TrimSuffix(path, <<"OWNERS">>))]
         IN OwnersApprovers(ms2, org, repoName, path, Tail(approvers), unknown)

\* the trees of SpecOwners: one entry, or two of which the first is a lead entry
PathSegments == {"OWNERS", "vendor", "a"}

RECURSIVE JoinPath(_)
JoinPath(segs) ==
    IF Len(segs) = 1 THEN <<segs[1]>> ELSE <<segs[1], "/">> \o JoinPath(Tail(segs))

EntryPaths == {JoinPath(segs) : segs \in UNION {[1..n -> PathSegments] : n \in 1..MaxDepth}}

OwnersFiles ==
    {[Approvers |-> <<<<"dave">>>>, Reviewers |-> <<<<"erin">>>>],
     [Approvers |-> <<>>, Reviewers |-> <<<<"dave">>>>],
     [Approvers |-> <<<<"dave">>, <<"erin">>>>, Reviewers |-> <<>>]}

TreeEntries == [path : EntryPaths, file : OwnersFiles]

LeadEntries ==
    {[path |-> <<"a", "/", "b", "/", "OWNERS">>,
      file |-> [Approvers |-> <<<<"dave">>>>, Reviewers |-> <<<<"erin">>>>]],
     [path |-> <<"vendor", "/", "OWNERS">>,
      file |-> [Approvers |-> <<<<"dave">>>>, Reviewers |-> <<>>]]}

Trees == {<<e>> : e \in TreeEntries}
            \cup {<<lead, e>> : lead \in LeadEntries, e \in TreeEntries}

OwIdle ==
    /\ owTree = <<>>
    /\ owUnknown = {}
    /\ owPc = "idle"
    /\ owIdx = 0
    /\ owFiles = EmptyMap
    /\ owFetched = <<>>
    /\ owMaintainers = EmptyMap

\* handleOWNERS(org, repo, maintainers) is called
\* the map handleOWNERS is handed when an earlier repository of the pass gave a
\* maintainer a path
OwnersPrior ==
    [l \in {<<"frank">>} |->
        [OrgLogin |-> FileOrg.OrgLogin, UserLogin |-> l, Paths |-> << <<"r0", "/">> >>]]

\* the files are gone through as soon as one is there (a slip)
OwnersFilesDueEarly(idx, tree) == TRUE

\* for path, file := range files: the loop that follows the loop over the entries
OwnersFilesDue(idx, tree) == idx > Len(tree)

OwnersCalled ==
    /\ owTree \in Trees
    /\ owUnknown \in {{}, {<<"erin">>}}
    /\ owPc = "listCommits"
    /\ owIdx = 0
    /\ owFiles = EmptyMap
    /\ owFetched = <<>>
    /\ owMaintainers \in {EmptyMap, OwnersPrior}

\* rc, _, err := ... ListCommits(...); if err != nil { return err }
OwnersListCommits ==
    /\ owPc = "listCommits"
    /\ \E failed \in BOOLEAN : owPc' = IF failed THEN "error" ELSE "getTree"
    /\ UNCHANGED <<owTree, owUnknown, owIdx, owFiles, owFetched, owMaintainers, notOwVars>>

\* tree, _, err := ... GetTree(...); if err != nil { return err }
OwnersGetTree ==
    /\ owPc = "getTree"
    /\ \E failed \in BOOLEAN :
         IF failed THEN owPc' = "error" /\ UNCHANGED owIdx
         ELSE owPc' = "entries" /\ owIdx' = 1
    /\ UNCHANGED <<owTree, owUnknown, owFiles, owFetched, owMaintainers, notOwVars>>

\* one turn of the loop over the entries of the tree: an OWNERS file outside
\* vendor is downloaded, read and parsed, and any failure is returned
OwnersEntry ==
    /\ owPc = "entries"
    /\ owIdx <= Len(owTree)
    /\ LET entry == owTree[owIdx] IN
       IF OwnersWanted(SplitPath(entry.path))
       THEN /\ owFetched' = Append(owFetched, entry.path)
            /\ \E outcome \in {"ok", "get failed", "read failed", "parse failed"} :
                 IF outcome = "ok"
                 THEN /\ owFiles' = [p \in DOMAIN owFiles \cup {entry.path} |->
                                        IF p = entry.path THEN entry.file ELSE owFiles[p]]
                      /\ owIdx' = owIdx + 1
                      /\ UNCHANGED owPc
                 ELSE owPc' = "error" /\ UNCHANGED <<owFiles, owIdx>>
       ELSE owIdx' = owIdx + 1 /\ UNCHANGED <<owFiles, owFetched, owPc>>
    /\ UNCHANGED <<owTree, owUnknown, owMaintainers, notOwVars>>

\* one turn of the loop over the files, in the order the map gives them; owFiles
\* keeps the files that are still to come
OwnersFile ==
    /\ owPc = "entries"
    /\ OwnersFilesDue(owIdx, owTree)
    /\ \E path \in DOMAIN owFiles :
         /\ owMaintainers' = OwnersApprovers(owMaintainers, FileOrg, FileRepoName, path,
                                             owFiles[path].Approvers, owUnknown)
         /\ owFiles' = [p \in DOMAIN owFiles \ {path} |-> owFiles[p]]
    /\ UNCHANGED <<owTree, owUnknown, owPc, owIdx, owFetched, notOwVars>>

\* return nil
OwnersReturn ==
    /\ owPc = "entries"
    /\ owIdx > Len(owTree)
    /\ owFiles = EmptyMap
    /\ owPc' = "returned"
    /\ UNCHANGED <<owTree, owUnknown, owIdx, owFiles, owFetched, owMaintainers, notOwVars>>

(***************************************************************************)
(* handlePullRequests.  fetchPullRequests hands the pull requests of a     *)
(* repository to the callback page by page.  A pull request is its number  *)
(* and its updated_at; the store keeps one record per number, and the      *)
(* cache reads through to it.                                              *)
(***************************************************************************)
\* the numbers of the pull requests of the repository
PRNumbers == {1, 2}

\* the values of updated_at
Stamps == 1..MaxStamp

\* a pull request as the listing returns it
UpstreamPRs == [Number : PRNumbers, UpdatedAt : Stamps]

\* the pages of a listing: pull requests with different numbers
PRPages ==
    {<<>>} \cup {<<p>> : p \in UpstreamPRs}
           \cup {pg \in UpstreamPRs \X UpstreamPRs : pg[1].Number # pg[2].Number}

\* the files fetchFiles returns for a pull request, and the ones of a record that
\* was stored before the run
UpstreamFiles == <<"f.go">>
StoredFiles == <<>>

\* gh.ConvertPullRequest(org, repo, pr, files): the record and its users
ConvertPullRequest(pr, files) ==
    [Number |-> pr.Number, UpdatedAt |-> pr.UpdatedAt, Files |-> files]

PullRequestAuthor == "alice"

\* gh.ConvertPullRequestReview(org, repo, number, review): the record and its users
ConvertPullRequestReview(number) == [Number |-> number]

Reviewer == "carol"

\* the stores a run can start with: for each number no record, or a record with
\* some updated_at
PRStores ==
    UNION {[S -> [Number : PRNumbers, UpdatedAt : Stamps, Files : {StoredFiles}]]
              : S \in SUBSET PRNumbers}

InitialPRStores == {st \in PRStores : \A n \in DOMAIN st : st[n].Number = n}

\* cache.ReadPullRequest(org, repo, number): the record, or nil
ReadPullRequest(st, number, readOk) ==
    IF readOk /\ number \in DOMAIN st THEN <<st[number]>> ELSE <<>>

\* the test with the slip of skipping every pull request the cache knows
UpToDateIfKnown(existing, pr) == existing # <<>>

\* existing != nil && existing.UpdatedAt == pr.GetUpdatedAt()
UpToDate(existing, pr) ==
    existing # <<>> /\ existing[1].UpdatedAt = pr.UpdatedAt

\* store.WritePullRequests(batch): every record replaces the one of its number
RECURSIVE WritePullRequests(_, _, _)
WritePullRequests(st, batch, i) ==
    IF i > Len(batch) THEN st
    ELSE WritePullRequests(
            [n \in DOMAIN st \cup {batch[i].Number} |->
                IF n = batch[i].Number THEN batch[i] ELSE st[n]],
            batch, i + 1)

PrIdle ==
    /\ prStore = EmptyMap
    /\ prReviewStore = {}
    /\ prUsers = {}
    /\ prPc = "idle"
    /\ prPage = <<>>
    /\ prIdx = 0
    /\ prBatch = <<>>
    /\ prReviews = <<>>
    /\ prFetches = <<>>
    /\ prBefore = EmptyMap
    /\ prWritten = <<>>
    /\ prErr = NoError

\* handlePullRequests(repo) is called
PullRequestsCalled ==
    /\ prStore \in InitialPRStores
    /\ prReviewStore = {}
    /\ prUsers = {}
    /\ prPc = "fetch"
    /\ prPage = <<>>
    /\ prIdx = 0
    /\ prBatch = <<>>
    /\ prReviews = <<>>
    /\ prFetches = <<>>
    /\ prBefore = prStore
    /\ prWritten = <<>>
    /\ prErr = NoError

\* fetchPullRequests calls the callback with a page: var storagePRs, storagePRReviews
PullRequestsPage ==
    /\ prPc = "fetch"
    /\ prPage' \in PRPages
    /\ prIdx' = 1
    /\ prBatch' = <<>>
    /\ prReviews' = <<>>
    /\ prFetches' = <<>>
    /\ prBefore' = prStore
    /\ prWritten' = <<>>
    /\ prPc' = "pr"
    /\ UNCHANGED <<prStore, prReviewStore, prUsers, prErr>>
    /\ UNCHANGED notPrVars

\* fetchPullRequests returns: there is no further page, or the listing failed
PullRequestsReturn ==
    /\ prPc = "fetch"
    /\ \E failed \in BOOLEAN :
         prErr' = IF failed THEN <<"fetchPullRequests">> ELSE NoError
    /\ prPc' = "done"
    /\ UNCHANGED <<prStore, prReviewStore, prUsers, prPage, prIdx, prBatch, prReviews,
                   prFetches, prBefore, prWritten>>
    /\ UNCHANGED notPrVars

\* for _, pr := range prs: the cache is read (its error is dropped) and an
\* up-to-date pull request is skipped with continue
PullRequestNext ==
    /\ prPc = "pr"
    /\ prIdx <= Len(prPage)
    /\ \E readOk \in BOOLEAN :
         LET pr == prPage[prIdx]
             existing == ReadPullRequest(prStore, pr.Number, readOk)
         IN /\ prFetches' = Append(prFetches, [op |-> "ReadPullRequest",
                                               Number |-> pr.Number, ok |-> readOk])
            /\ IF UpToDate(existing, pr)
               THEN prIdx' = prIdx + 1 /\ prPc' = "pr"
               ELSE prIdx' = prIdx /\ prPc' = "reviews"
    /\ UNCHANGED <<prStore, prReviewStore, prUsers, prPage, prBatch, prReviews,
                   prBefore, prWritten, prErr>>
    /\ UNCHANGED notPrVars

\* fetchReviews(repo, number, callback): the reviews are converted and their
\* users registered; an error is returned from the callback of the page
PullRequestReviews ==
    /\ prPc = "reviews"
    /\ LET pr == prPage[prIdx] IN
       \E outcome \in {"failed", "none", "one"} :
         /\ prFetches' = Append(prFetches, [op |-> "fetchReviews", Number |-> pr.Number,
                                            ok |-> outcome # "failed"])
         /\ prReviews' = IF outcome = "one"
                         THEN Append(prReviews, ConvertPullRequestReview(pr.Number))
                         ELSE prReviews
         /\ prUsers' = IF outcome = "one" THEN prUsers \cup {Reviewer} ELSE prUsers
         /\ prPc' = IF outcome = "failed" THEN "done" ELSE "files"
         /\ prErr' = IF outcome = "failed" THEN <<"fetchReviews">> ELSE prErr
    /\ UNCHANGED <<prStore, prReviewStore, prPage, prIdx, prBatch, prBefore, prWritten>>
    /\ UNCHANGED notPrVars

\* fetchFiles(repo, number, callback), then ConvertPullRequest, append, addUsers
PullRequestFiles ==
    /\ prPc = "files"
    /\ LET pr == prPage[prIdx] IN
       \E failed \in BOOLEAN :
         /\ prFetches' = Append(prFetches, [op |-> "fetchFiles", Number |-> pr.Number,
                                            ok |-> ~failed])
         /\ IF failed
            THEN /\ prErr' = <<"fetchFiles">>
                 /\ prPc' = "done"
                 /\ UNCHANGED <<prBatch, prUsers, prIdx>>
            ELSE /\ prBatch' = Append(prBatch, ConvertPullRequest(pr, UpstreamFiles))
                 /\ prUsers' = prUsers \cup {PullRequestAuthor}
                 /\ prIdx' = prIdx + 1
                 /\ prPc' = "pr"
                 /\ UNCHANGED prErr
    /\ UNCHANGED <<prStore, prReviewStore, prPage, prReviews, prBefore, prWritten>>
    /\ UNCHANGED notPrVars

\* err := WritePullRequests(storagePRs); if err == nil { err =
\* WritePullRequestReviews(storagePRReviews) }; return err
PullRequestsWrite ==
    /\ prPc = "pr"
    /\ prIdx > Len(prPage)
    /\ prWritten' = <<prBatch>>
    /\ \E outcome \in {"ok", "prsFailed", "reviewsFailed"} :
         /\ prStore' = IF outcome = "prsFailed" THEN prStore
                       ELSE WritePullRequests(prStore, prBatch, 1)
         /\ prReviewStore' = IF outcome = "ok"
                             THEN prReviewStore \cup {prReviews[k] : k \in 1..Len(prReviews)}
                             ELSE prReviewStore
         /\ prErr' = CASE outcome = "ok" -> prErr
                       [] outcome = "prsFailed" -> <<"WritePullRequests">>
                       [] outcome = "reviewsFailed" -> <<"WritePullRequestReviews">>
         /\ prPc' = IF outcome = "ok" THEN "fetch" ELSE "done"
    /\ UNCHANGED <<prUsers, prPage, prIdx, prBatch, prReviews, prFetches, prBefore>>
    /\ UNCHANGED notPrVars

(***************************************************************************)
(* handleEvents.  fetchRepoEvents hands the raw events of a repository to  *)
(* the callback page by page; a raw event is its type and whether its      *)
(* payload parses; the record made of it carries its position in the page, *)
(* which stands for the data copied from the event.  The handler never     *)
(* reads the event tables of the store: of the store the model keeps the   *)
(* write calls made for the page at hand.                                  *)
(***************************************************************************)
\* the case labels of the switch, in its order
EventCases ==
    <<"IssueEvent", "IssueCommentEvent", "PullRequestEvent", "PullRequestCommentEvent",
      "PullRequestReviewEvent">>

\* the storage type each case makes a record of, and the slice it appends to
EventStorage ==
    <<"storage.IssueEvent", "storage.IssueCommentEvent", "storage.PullRequestEvent",
      "storage.PullRequestReviewCommentEvent", "storage.PullRequestReviewEvent">>

\* the write of each slice, in the order of the statements after the loop
EventWrites ==
    <<"WriteIssueEvents", "WriteIssueCommentEvents", "WritePullRequestEvents",
      "WritePullRequestReviewCommentEvents", "WritePullRequestReviewEvents">>

EventSlices == 1..Len(EventStorage)

\* the types of the raw events: the case labels and a type without a case
EventTypes == {EventCases[i] : i \in EventSlices} \cup {"WatchEvent"}

\* the raw events; the payload of an event without a case is never parsed
RawEvents ==
    {e \in [Type : EventTypes, Parses : BOOLEAN] : e.Parses \/ e.Type # "WatchEvent"}

\* the pages of raw events
RECURSIVE EventPagesOf(_)
EventPagesOf(n) ==
    IF n = 0 THEN {<<>>}
    ELSE LET shorter == EventPagesOf(n - 1) IN
         shorter \cup {Append(pg, e) : pg \in {q \in shorter : Len(q) = n - 1}, e \in RawEvents}

EventPages == EventPagesOf(MaxEvents)

\* the switch with the slip of a default case that makes an issue event
EventRecordDefaulting(event, pos) ==
    LET cases == {i \in EventSlices : EventCases[i] = event.Type} IN
    IF cases = {} THEN [slice |-> 1, records |-> <<[Kind |-> EventStorage[1], Pos |-> pos]>>]
    ELSE LET i == CHOOSE c \in cases : TRUE IN
         IF ~event.Parses THEN [slice |-> i, records |-> <<>>]
         ELSE [slice |-> i, records |-> <<[Kind |-> EventStorage[i], Pos |-> pos]>>]

\* switch *event.Type: the slice the event goes to and the record appended to
\* it; no case, or a payload that does not parse (continue), appends nothing
EventRecord(event, pos) ==
    LET cases == {i \in EventSlices : EventCases[i] = event.Type} IN
    IF cases = {} THEN [slice |-> 1, records |-> <<>>]
    ELSE LET i == CHOOSE c \in cases : TRUE IN
         IF ~event.Parses THEN [slice |-> i, records |-> <<>>]
         ELSE [slice |-> i, records |-> <<[Kind |-> EventStorage[i], Pos |-> pos]>>]

NoEventRecords == [i \in EventSlices |-> <<>>]

\* for _, event := range events: the five slices after the loop, from event pos on
RECURSIVE EventLoop(_, _, _)
EventLoop(page, pos, slices) ==
    IF pos > Len(page) THEN slices
    ELSE LET r == EventRecord(page[pos], pos) IN
         EventLoop(page, pos + 1, [slices EXCEPT ![r.slice] = slices[r.slice] \o r.records])

\* the write calls after the loop when the write of slice failing fails (0: none
\* fails): a slice is written when it is not empty, and the first failure returns
RECURSIVE EventWriteCalls(_, _, _)
EventWriteCalls(slices, i, failing) ==
    IF i > Len(EventWrites) THEN <<>>
    ELSE IF slices[i] = <<>> THEN EventWriteCalls(slices, i + 1, failing)
    ELSE <<[op |-> EventWrites[i], batch |-> slices[i], ok |-> i # failing]>>
         \o (IF i = failing THEN <<>> ELSE EventWriteCalls(slices, i + 1, failing))

\* the records of the page of fetchIssueEvents: one per issue event
IssueEventRecords(n) == [pos \in 1..n |-> [Kind |-> EventStorage[1], Pos |-> pos]]

EvIdle ==
    /\ evPc = "idle"
    /\ evPage = <<>>
    /\ evSlices = NoEventRecords
    /\ evLog = <<>>
    /\ evErr = NoError

\* handleEvents(repo) is called
EventsCalled ==
    /\ evPc = "repoEvents"
    /\ evPage = <<>>
    /\ evSlices = NoEventRecords
    /\ evLog = <<>>
    /\ evErr = NoError

\* fetchRepoEvents calls the callback with a page: the slices are declared and
\* the loop over the events fills them
EventsPage ==
    /\ evPc = "repoEvents"
    /\ \E page \in EventPages :
         /\ evPage' = page
         /\ evSlices' = EventLoop(page, 1, NoEventRecords)
    /\ evLog' = <<>>
    /\ evPc' = "repoEvents.write"
    /\ UNCHANGED evErr
    /\ UNCHANGED notEvVars

\* the five guarded writes after the loop; the callback returns the first error
EventsWrite ==
    /\ evPc = "repoEvents.write"
    /\ \E failing \in {0} \cup {i \in EventSlices : evSlices[i] # <<>>} :
         /\ evLog' = EventWriteCalls(evSlices, 1, failing)
         /\ evErr' = IF failing = 0 THEN NoError ELSE <<EventWrites[failing]>>
         /\ evPc' = IF failing = 0 THEN "repoEvents" ELSE "done"
    /\ UNCHANGED <<evPage, evSlices>>
    /\ UNCHANGED notEvVars

\* fetchRepoEvents returns: if err != nil { return err }, else fetchIssueEvents
EventsFetched ==
    /\ evPc = "repoEvents"
    /\ \E failed \in BOOLEAN :
         /\ evErr' = IF failed THEN <<"fetchRepoEvents">> ELSE NoError
         /\ evPc' = IF failed THEN "done" ELSE "issueEvents"
    /\ evPage' = <<>>
    /\ evSlices' = NoEventRecords
    /\ evLog' = <<>>
    /\ UNCHANGED notEvVars

\* fetchIssueEvents calls the callback with a page of issue events: each is
\* converted, and the slice is written when it is not empty
IssueEventsPage ==
    /\ evPc = "issueEvents"
    /\ \E n \in 0..MaxEvents :
         \E failed \in (IF n = 0 THEN {FALSE} ELSE BOOLEAN) :
           /\ evSlices' = [NoEventRecords EXCEPT ![1] = IssueEventRecords(n)]
           /\ evLog' = EventWriteCalls(evSlices', 1, IF failed THEN 1 ELSE 0)
           /\ evErr' = IF failed THEN <<EventWrites[1]>> ELSE NoError
           /\ evPc' = IF failed THEN "done" ELSE "issueEvents"
    /\ UNCHANGED evPage
    /\ UNCHANGED notEvVars

\* fetchIssueEvents returns, and handleEvents with it
IssueEventsFetched ==
    /\ evPc = "issueEvents"
    /\ \E failed \in BOOLEAN :
         evErr' = IF failed THEN <<"fetchIssueEvents">> ELSE NoError
    /\ evPc' = "done"
    /\ UNCHANGED <<evPage, evSlices, evLog>>
    /\ UNCHANGED notEvVars

(***************************************************************************)
(* The refresher.  Refresher.Handle is called with each webhook event as   *)
(* it is delivered.  An event is its dynamic type and the repository it    *)
(* is about; the event log is the sequence of the event records the store  *)
(* was given, each with the number of the delivery it was written for.     *)
(***************************************************************************)
\* the dynamic types the switch has a case for, in its order
RefresherCases ==
    <<"*github.IssueEvent", "*github.IssueCommentEvent", "*github.PullRequestEvent",
      "*github.PullRequestReviewEvent", "github.PullRequestReviewCommentEvent",
      "*github.CommitCommentEvent">>

\* the cache write of each case
RefresherCacheWrites ==
    <<"cache.WriteIssues", "cache.WriteIssueComments", "cache.WritePullRequests",
      "cache.WritePullRequestReviews", "cache.WritePullRequestReviewComments",
      "cache.WriteRepoComments">>

\* the event-log write of each case
RefresherLogWrites ==
    <<"store.WriteIssueEvents", "store.WriteIssueCommentEvents",
      "store.WritePullRequestEvents", "store.WritePullRequestReviewEvents",
      "store.WritePullRequestReviewCommentEvents", "store.WriteRepoCommentEvents">>

RefresherCaseIdx == 1..Len(RefresherCases)

\* the dynamic types of the events delivered: the ones with a case, and two that
\* fall to the default case
WebhookTypes ==
    {RefresherCases[i] : i \in RefresherCaseIdx}
        \cup {"*github.PullRequestReviewCommentEvent", "*github.PushEvent"}

\* the repositories the events are about: a configured one and another one
WebhookRepos == RepoKeys \cup {[OrgLogin |-> "org2", RepoName |-> "r9"]}

WebhookEvents == [Type : WebhookTypes, Repo : WebhookRepos]

\* NewRefresher: r.repos[org.Name+"/"+repo.Name] = true for every configured
\* repository
MonitoredRepos == RepoKeys

\* what the calls made while an event is handled come to: the cache write, the
\* event-log write and the users write fail or not, and the listing of the files
\* of a pull request has one page or two, or fails on one of them
FileListings == {"failed", "onePage", "failedSecond", "twoPages"}

RefresherEnvs ==
    [cacheOk : BOOLEAN, eventOk : BOOLEAN, usersOk : BOOLEAN, files : FileListings]

Call(name, ok) == [op |-> name, ok |-> ok]

\* the loop over the pages of client.PullRequests.ListFiles
ListFilesCalls(files) ==
    CASE files = "failed"       -> <<Call("PullRequests.ListFiles", FALSE)>>
      [] files = "onePage"      -> <<Call("PullRequests.ListFiles", TRUE)>>
      [] files = "failedSecond" -> <<Call("PullRequests.ListFiles", TRUE),
                                     Call("PullRequests.ListFiles", FALSE)>>
      [] files = "twoPages"     -> <<Call("PullRequests.ListFiles", TRUE),
                                     Call("PullRequests.ListFiles", TRUE)>>

\* r.syncUsers(context, discoveredUsers)
SyncUsers(usersOk) == <<Call("cache.WriteUsers", usersOk)>>

\* the write of the event record with the slip of writing it again after an error
LogCallsRetried(i, eventOk) ==
    IF eventOk THEN <<Call(RefresherLogWrites[i], TRUE)>>
    ELSE <<Call(RefresherLogWrites[i], FALSE), Call(RefresherLogWrites[i], TRUE)>>

\* events := []*storage.XEvent{event}; r.store.WriteXEvents(context, events)
LogCalls(i, eventOk) == <<Call(RefresherLogWrites[i], eventOk)>>

\* the case of the type switch a dynamic type takes; 0 is the default case
RefresherCase(type) ==
    IF \E i \in RefresherCaseIdx : RefresherCases[i] = type
    THEN CHOOSE i \in RefresherCaseIdx : RefresherCases[i] = type
    ELSE 0

\* the users written whether the event record was written or not (a slip)
LoggedThenUsersAlways(i, env) == LogCalls(i, env.eventOk) \o SyncUsers(env.usersOk)

\* if err := r.store.WriteXEvents(...); err != nil { Error; return };
\* r.syncUsers(context, discoveredUsers)
LoggedThenUsers(i, env) ==
    LogCalls(i, env.eventOk) \o (IF env.eventOk THEN SyncUsers(env.usersOk) ELSE <<>>)

\* every repository taken for a configured one (a slip)
IsMonitoredAlways(monitored, repo) == TRUE

\* r.repos[p.GetRepo().GetFullName()]
IsMonitored(monitored, repo) == repo \in monitored

\* Handle(context, event): the calls it makes on the cache, the store and the
\* upstream API, in order
HandleCalls(monitored, event, env) ==
    LET i == RefresherCase(event.Type) IN
    IF i = 0 \/ ~IsMonitored(monitored, event.Repo) THEN <<>>
    ELSE LET cacheWrite == <<Call(RefresherCacheWrites[i], env.cacheOk)>>
             logged == LoggedThenUsers(i, env)
         IN CASE event.Type = "*github.IssueEvent" ->
                   IF env.cacheOk THEN cacheWrite \o logged ELSE cacheWrite
              [] event.Type = "*github.IssueCommentEvent" ->
                   IF env.cacheOk THEN cacheWrite \o logged
                   ELSE cacheWrite \o SyncUsers(env.usersOk)
              [] event.Type = "*github.PullRequestEvent" ->
                   IF env.files \in {"failed", "failedSecond"}
                   THEN ListFilesCalls(env.files)
                   ELSE ListFilesCalls(env.files) \o cacheWrite \o logged
              [] OTHER -> cacheWrite \o logged

\* the event records the store appends for the calls of a delivery
RECURSIVE Appended(_, _, _)
Appended(calls, k, delivery) ==
    IF k > Len(calls) THEN <<>>
    ELSE (IF calls[k].ok /\ \E i \in RefresherCaseIdx : RefresherLogWrites[i] = calls[k].op
          THEN <<[op |-> calls[k].op, delivery |-> delivery]>>
          ELSE <<>>) \o Appended(calls, k + 1, delivery)

\* the entities the cache holds after the calls of a delivery
Cached(calls) ==
    {calls[k].op : k \in {j \in 1..Len(calls) :
                            calls[j].ok /\ calls[j].op \notin {"PullRequests.ListFiles"}
                            /\ \A i \in RefresherCaseIdx : RefresherLogWrites[i] # calls[j].op}}

\* the BotActivity tables a refresher can run next to: no row, or a row whose
\* bookmarks are set
BookmarkTables ==
    [RepoKeys -> {NoRow, [present |-> TRUE, rec |-> [f \in Fields |-> MaxTime]]}]

RfIdle ==
    /\ rfRepos = {}
    /\ rfDelivered = 0
    /\ rfEvent = [Type |-> "*github.PushEvent", Repo |-> CHOOSE r \in RepoKeys : TRUE]
    /\ rfCalls = <<>>
    /\ rfLog = <<>>
    /\ rfCache = {}

\* NewRefresher(cache, store, gc, orgs)
NewRefresher ==
    /\ rfRepos = MonitoredRepos
    /\ rfDelivered = 0
    /\ rfEvent = [Type |-> "*github.PushEvent", Repo |-> CHOOSE r \in RepoKeys : TRUE]
    /\ rfCalls = <<>>
    /\ rfLog = <<>>
    /\ rfCache = {}

\* the BotActivity table while no synchronization runs
BookmarksAtRest ==
    /\ now = 0
    /\ botActivity \in BookmarkTables
    /\ ha = [p \in Procs |-> NoPass]
    /\ fetched = {}
    /\ faults = 0
    /\ history = [k \in RepoKeys \X Fields |-> <<ZeroTime>>]

\* Refresher.Handle(context, event) for the next event delivered
Handle ==
    /\ rfDelivered < MaxDelivered
    /\ \E event \in WebhookEvents : \E env \in RefresherEnvs :
         LET calls == HandleCalls(rfRepos, event, env) IN
         /\ rfEvent' = event
         /\ rfCalls' = calls
         /\ rfLog' = rfLog \o Appended(calls, 1, rfDelivered + 1)
         /\ rfCache' = rfCache \cup Cached(calls)
    /\ rfDelivered' = rfDelivered + 1
    /\ UNCHANGED rfRepos
    /\ UNCHANGED notRfVars

(***************************************************************************)
(* handleMaintainers, one call per organization of a run.  An ownership    *)
(* file is the list of logins its rules name, in the order the handler     *)
(* meets them, each for the root path; the parsing of the files is the     *)
(* matter of SpecCodeowners and SpecOwners.                                *)
(***************************************************************************)
\* the repositories a pass may be called with, by organization
MtRepoLists == << {<<>>, <<"r1">>, <<"r1", "r2">>}, {<<>>, <<"r3">>} >>

MtOwnerLists == UNION {[1..n -> Logins] : n \in 0..MaxOwners}

MtRegistries == {EmptyMap, AddUser(EmptyMap, [UserLogin |-> "alice", Name |-> ""])}

\* getMaintainer's search for the user of a login: ss.users, then cache.ReadUser
\* when the registry has no entry, then Users.Get when the cache has no user;
\* consulted lists the sources in the order they were asked
ResolveUserCacheLast(reg, cache, upstream, login) ==
    IF login \in DOMAIN reg THEN [env |-> "registry", consulted |-> <<"registry">>]
    ELSE IF upstream[login] = "ok"
    THEN [env |-> "upstreamOk", consulted |-> <<"registry", "upstream">>]
    ELSE IF cache[login] = "err"
    THEN [env |-> "cacheErr", consulted |-> <<"registry", "upstream", "cache">>]
    ELSE IF cache[login] = "hit"
    THEN [env |-> "cacheHit", consulted |-> <<"registry", "upstream", "cache">>]
    ELSE [env |-> "upstreamErr", consulted |-> <<"registry", "upstream", "cache">>]

ResolveUser(reg, cache, upstream, login) ==
    IF login \in DOMAIN reg THEN [env |-> "registry", consulted |-> <<"registry">>]
    ELSE IF cache[login] = "err"
    THEN [env |-> "cacheErr", consulted |-> <<"registry", "cache">>]
    ELSE IF cache[login] = "hit"
    THEN [env |-> "cacheHit", consulted |-> <<"registry", "cache">>]
    ELSE IF upstream[login] = "err"
    THEN [env |-> "upstreamErr", consulted |-> <<"registry", "cache", "upstream">>]
    ELSE [env |-> "upstreamOk", consulted |-> <<"registry", "cache", "upstream">>]

\* if err == nil { handleCODEOWNERS } else { handleOWNERS }
\* found: GetContents returned no error; readable: the body of the file it
\* returned can be read
OwnershipHandlerByContent(found, readable) ==
    IF found /\ readable THEN "handleCODEOWNERS" ELSE "handleOWNERS"

OwnershipHandler(found, readable) ==
    IF found THEN "handleCODEOWNERS" ELSE "handleOWNERS"

\* maintainer.Paths = append(maintainer.Paths, repo.RepoName+"/"+path)
AppendPath(ms, login, repoName) ==
    [ms EXCEPT ![login].Paths = Append(@, <<repoName, "/">>)]

\* the slice handleMaintainers hands to WriteAllMaintainers, as a set
StorageMaintainers(ms) == {ms[l] : l \in DOMAIN ms}

MtIdle ==
    /\ mtUsers = EmptyMap
    /\ mtCache = EmptyMap
    /\ mtUpstream = EmptyMap
    /\ mtOrg = 0
    /\ mtRepos = <<>>
    /\ mtPc = "idle"
    /\ mtIdx = 0
    /\ mtPending = <<>>
    /\ mtMaintainers = EmptyMap
    /\ mtFiles = <<>>
    /\ mtLookups = <<>>
    /\ mtWrites = <<>>

\* the run reaches the maintainer pass of its first organization
MaintainersCalled ==
    /\ mtUsers \in MtRegistries
    /\ mtCache \in [Logins -> {"hit", "miss", "err"}]
    /\ mtUpstream \in [Logins -> {"ok", "err"}]
    /\ mtOrg = 1
    /\ mtRepos = <<>>
    /\ mtPc = "called"
    /\ mtIdx = 0
    /\ mtPending = <<>>
    /\ mtMaintainers = EmptyMap
    /\ mtFiles = <<>>
    /\ mtLookups = <<>>
    /\ mtWrites = <<>>

\* a map that is carried from one call to the next
FreshMaintainersKept(ms) == ms

\* maintainers := make(map[string]*storage.Maintainer)
FreshMaintainers(ms) == EmptyMap

\* handleMaintainers(org, repos) begins
MaintainersStart ==
    /\ mtPc = "called"
    /\ \E rs \in MtRepoLists[mtOrg] : mtRepos' = rs
    /\ mtMaintainers' = FreshMaintainers(mtMaintainers)
    /\ mtIdx' = 1
    /\ mtFiles' = <<>>
    /\ mtLookups' = <<>>
    /\ mtPc' = "repos"
    /\ UNCHANGED <<mtUsers, mtCache, mtUpstream, mtOrg, mtPending, mtWrites, notMtVars>>

\* one turn of the loop over the repositories, up to the loop over the logins:
\* GetContents("CODEOWNERS"), then the handler the result selects; a handler
\* that returns an error has resolved no login, and the error is only logged
MaintainersGetContents ==
    /\ mtPc = "repos"
    /\ mtIdx <= Len(mtRepos)
    /\ \E found \in BOOLEAN, readable \in BOOLEAN, logins \in MtOwnerLists :
         LET handler == OwnershipHandler(found, found /\ readable)
             \* GetContent failed, or ListCommits, GetTree or an OWNERS file did
             failed == ~readable
         IN /\ mtFiles' = Append(mtFiles,
                              [repo |-> mtRepos[mtIdx], fetched |-> found,
                               handler |-> handler, failed |-> failed,
                               logins |-> IF failed THEN <<>> ELSE logins])
            /\ IF failed
               THEN /\ mtIdx' = mtIdx + 1
                    /\ UNCHANGED <<mtPc, mtPending>>
               ELSE /\ mtPending' = logins
                    /\ mtPc' = "logins"
                    /\ UNCHANGED mtIdx
    /\ UNCHANGED <<mtUsers, mtCache, mtUpstream, mtOrg, mtRepos, mtMaintainers, mtLookups,
                   mtWrites, notMtVars>>

\* a login whose resolution failed ends the handler
SkipFailedLoginAborting(pending) == <<>>

\* if maintainer == nil || err != nil { Warnf; continue }
SkipFailedLogin(pending) == Tail(pending)

\* one turn of the loop over the logins of a file
MaintainersLogin ==
    /\ mtPc = "logins"
    /\ mtPending # <<>>
    /\ LET login == Head(mtPending)
           r == ResolveUser(mtUsers, mtCache, mtUpstream, login)
           g == GetMaintainer(mtUsers, mtMaintainers, ConvertOrg(ConfiguredOrgs[mtOrg]),
                              login, r.env)
       IN /\ mtUsers' = g.users
          /\ mtLookups' = Append(mtLookups,
                                 [repo |-> mtRepos[mtIdx], login |-> login,
                                  known |-> login \in DOMAIN mtUsers,
                                  consulted |-> r.consulted,
                                  registered |-> g.registered # <<>>,
                                  record |-> g.login, failed |-> g.err # NoError])
          /\ IF g.err # NoError
             THEN /\ mtMaintainers' = g.maintainers
                  /\ mtPending' = SkipFailedLogin(mtPending)
             ELSE /\ mtMaintainers' = AppendPath(g.maintainers, g.login, mtRepos[mtIdx])
                  /\ mtPending' = Tail(mtPending)
    /\ UNCHANGED <<mtCache, mtUpstream, mtOrg, mtRepos, mtPc, mtIdx, mtFiles, mtWrites,
                   notMtVars>>

\* the handler returns nil
MaintainersFileDone ==
    /\ mtPc = "logins"
    /\ mtPending = <<>>
    /\ mtIdx' = mtIdx + 1
    /\ mtPc' = "repos"
    /\ UNCHANGED <<mtUsers, mtCache, mtUpstream, mtOrg, mtRepos, mtPending, mtMaintainers,
                   mtFiles, mtLookups, mtWrites, notMtVars>>

\* no write for a pass that resolved no maintainer
WriteNeededIfAny(ms) == DOMAIN ms # {}

\* return ss.syncer.store.WriteAllMaintainers(ss.ctx, storageMaintainers)
WriteNeeded(ms) == TRUE

\* after the loop: the one write of the pass, and the return
MaintainersWrite ==
    /\ mtPc = "repos"
    /\ mtIdx > Len(mtRepos)
    /\ mtWrites' = IF WriteNeeded(mtMaintainers)
                   THEN Append(mtWrites, [org |-> mtOrg,
                                          maintainers |-> StorageMaintainers(mtMaintainers)])
                   ELSE mtWrites
    /\ mtPc' = "returned"
    /\ UNCHANGED <<mtUsers, mtCache, mtUpstream, mtOrg, mtRepos, mtIdx, mtPending,
                   mtMaintainers, mtFiles, mtLookups, notMtVars>>

\* the loop of Sync over the organizations comes to the next maintainer pass
MaintainersNextOrg ==
    /\ mtPc = "returned"
    /\ mtOrg < Len(ConfiguredOrgs)
    /\ mtOrg' = mtOrg + 1
    /\ mtPc' = "called"
    /\ UNCHANGED <<mtUsers, mtCache, mtUpstream, mtRepos, mtIdx, mtPending, mtMaintainers,
                   mtFiles, mtLookups, mtWrites, notMtVars>>

(***************************************************************************)
(* handleZenHub for one repository.  The issues of the store are numbered  *)
(* from 1; the pipeline ZenHub holds for an issue is a function of its     *)
(* number.                                                                 *)
(***************************************************************************)
\* if len(pipelines)%100 == 0
BatchSize == 100

ZenHubRepo == [OrgLogin |-> "org1", RepoName |-> "r1"]

\* issueData.(*zh.IssueData).Pipeline.Name
PipelineName(number) == IF number % 2 = 0 THEN "Backlog" ELSE "Done"

\* &storage.IssuePipeline{OrgLogin, RepoName, IssueNumber, Pipeline}
IssuePipeline(repo, number) ==
    [OrgLogin |-> repo.OrgLogin, RepoName |-> repo.RepoName, IssueNumber |-> number,
     Pipeline |-> PipelineName(number)]

\* the answers of client.GetIssueData
LookupAnswers == {"ok", "ErrNotFound", "error"}

\* a lookup that found nothing fails the handler like any other error
LookupReturnFailing(answer, number) == <<"GetIssueData", number>>

\* if err == zh.ErrNotFound { return nil }; return fmt.Errorf(...)
LookupReturn(answer, number) ==
    IF answer = "ErrNotFound" THEN NoError ELSE <<"GetIssueData", number>>

\* the slice is kept after it was written
AfterFlushKept(pipelines) == pipelines

\* pipelines = pipelines[:0]
AfterFlush(pipelines) == <<>>

ZhIdle ==
    /\ zhStored = 0
    /\ zhPc = "idle"
    /\ zhIssues = <<>>
    /\ zhIdx = 0
    /\ zhPipelines = <<>>
    /\ zhObtained = <<>>
    /\ zhLooked = <<>>
    /\ zhWrites = <<>>
    /\ zhErr = NoError

\* handleZenHub(repo) is called
ZenHubCalled ==
    /\ zhStored \in 0..MaxIssues
    /\ zhPc = "query"
    /\ zhIssues = <<>>
    /\ zhIdx = 0
    /\ zhPipelines = <<>>
    /\ zhObtained = <<>>
    /\ zhLooked = <<>>
    /\ zhWrites = <<>>
    /\ zhErr = NoError

\* QueryIssuesByRepo with the appending callback, and the return on its error
ZenHubQuery ==
    /\ zhPc = "query"
    /\ \E ok \in BOOLEAN :
         IF ok
         THEN /\ zhIssues' = [i \in 1..zhStored |-> i]
              /\ zhIdx' = 1
              /\ zhPc' = "loop"
              /\ UNCHANGED zhErr
         ELSE /\ zhPc' = "returned"
              /\ zhErr' = <<"QueryIssuesByRepo">>
              /\ UNCHANGED <<zhIssues, zhIdx>>
    /\ UNCHANGED <<zhStored, zhPipelines, zhObtained, zhLooked, zhWrites, notZhVars>>

\* one turn of the loop over the issues: the lookup, the returns on its error,
\* the append, and the write of a full batch
ZenHubIssue ==
    /\ zhPc = "loop"
    /\ zhIdx <= Len(zhIssues)
    /\ \E answer \in LookupAnswers, written \in BOOLEAN :
         LET number == zhIssues[zhIdx]
             pipelines == Append(zhPipelines, IssuePipeline(ZenHubRepo, number))
             full == Len(pipelines) % BatchSize = 0
         IN /\ zhLooked' = Append(zhLooked, answer)
            /\ IF answer # "ok"
               THEN /\ zhPc' = "returned"
                    /\ zhErr' = LookupReturn(answer, number)
                    /\ written
                    /\ UNCHANGED <<zhIdx, zhPipelines, zhObtained, zhWrites>>
               ELSE /\ zhObtained' = Append(zhObtained, IssuePipeline(ZenHubRepo, number))
                    /\ IF ~full
                       THEN /\ written
                            /\ zhPipelines' = pipelines
                            /\ zhIdx' = zhIdx + 1
                            /\ UNCHANGED <<zhPc, zhErr, zhWrites>>
                       ELSE /\ zhWrites' = Append(zhWrites, [batch |-> pipelines,
                                                             ok |-> written])
                            /\ IF written
                               THEN /\ zhPipelines' = AfterFlush(pipelines)
                                    /\ zhIdx' = zhIdx + 1
                                    /\ UNCHANGED <<zhPc, zhErr>>
                               ELSE /\ zhPipelines' = pipelines
                                    /\ zhPc' = "returned"
                                    /\ zhErr' = <<"WriteIssuePipelines">>
                                    /\ UNCHANGED zhIdx
    /\ UNCHANGED <<zhStored, zhIssues, notZhVars>>

\* return ss.syncer.store.WriteIssuePipelines(ss.ctx, pipelines)
ZenHubReturn ==
    /\ zhPc = "loop"
    /\ zhIdx > Len(zhIssues)
    /\ \E written \in BOOLEAN :
         /\ zhWrites' = Append(zhWrites, [batch |-> zhPipelines, ok |-> written])
         /\ zhErr' = IF written THEN NoError ELSE <<"WriteIssuePipelines">>
    /\ zhPc' = "returned"
    /\ UNCHANGED <<zhStored, zhIssues, zhIdx, zhPipelines, zhObtained, zhLooked, notZhVars>>

(***************************************************************************)
(* Several calls of Sync on one Syncer, one after the other or at the      *)
(* same time.  A call is reduced to what it keeps between its steps: the   *)
(* registry of its syncState and the map of its maintainer pass, with at   *)
(* most one path per login.                                                *)
(***************************************************************************)
RunRepos == {"r1", "r2"}

\* one registry, a field of the Syncer, for every call
RegistryOfSyncer(p) == "sync"

\* ss := &syncState{users: make(map[string]*storage.User), ...}: the registry
\* belongs to the syncState of the call
RegistryOf(p) == p

NothingFound == [users |-> {}, paths |-> {}]

NoBatches == [users |-> <<>>, maintainers |-> <<>>]

RnIdle ==
    /\ rnPc = EmptyMap
    /\ rnUsers = EmptyMap
    /\ rnMaintainers = EmptyMap
    /\ rnFound = EmptyMap
    /\ rnBatches = EmptyMap

\* the Syncer exists and Sync has not been called
SyncerCreated ==
    /\ rnPc = [p \in Procs |-> "idle"]
    /\ rnUsers = [p \in Procs |-> EmptyMap]
    /\ rnMaintainers = [p \in Procs |-> EmptyMap]
    /\ rnFound = [p \in Procs |-> NothingFound]
    /\ rnBatches = [p \in Procs |-> NoBatches]

\* Sync is called: the syncState with its new registry
RunSync(p) ==
    /\ rnPc[p] = "idle"
    /\ rnPc' = [rnPc EXCEPT ![p] = "running"]
    /\ rnUsers' = [rnUsers EXCEPT ![RegistryOf(p)] = EmptyMap]
    /\ UNCHANGED <<rnMaintainers, rnFound, rnBatches, notRnVars>>

\* a handler of the call registers a user it came upon: ss.addUsers(user)
RunAddUsers(p) ==
    /\ rnPc[p] = "running"
    /\ \E l \in Logins :
         LET user == [UserLogin |-> l, Name |-> ""]
         IN /\ rnUsers' = [rnUsers EXCEPT ![RegistryOf(p)] = AddUser(@, user)]
            /\ rnFound' = [rnFound EXCEPT ![p].users = @ \cup {l}]
    /\ UNCHANGED <<rnPc, rnMaintainers, rnBatches, notRnVars>>

\* the call comes to handleMaintainers, with its new map
RunMaintainersStart(p) ==
    /\ rnPc[p] = "running"
    /\ rnBatches[p].maintainers = <<>>
    /\ rnPc' = [rnPc EXCEPT ![p] = "maintainers"]
    /\ rnMaintainers' = [rnMaintainers EXCEPT ![p] = FreshMaintainers(@)]
    /\ UNCHANGED <<rnUsers, rnFound, rnBatches, notRnVars>>

\* a login of an ownership file of a repository is resolved and gets its path
RunMaintainerLogin(p) ==
    /\ rnPc[p] = "maintainers"
    /\ \E l \in Logins \ DOMAIN rnMaintainers[p], repo \in RunRepos :
         \E env \in IF l \in DOMAIN rnUsers[RegistryOf(p)] THEN {"registry"}
                    ELSE {"cacheHit", "upstreamOk"} :
            LET g == GetMaintainer(rnUsers[RegistryOf(p)], rnMaintainers[p],
                                   ConvertOrg(ConfiguredOrgs[1]), l, env)
            IN /\ rnUsers' = [rnUsers EXCEPT ![RegistryOf(p)] = g.users]
               /\ rnMaintainers' = [rnMaintainers EXCEPT ![p] =
                                       AppendPath(g.maintainers, g.login, repo)]
               /\ rnFound' = [rnFound EXCEPT
                                 ![p].users = IF env = "upstreamOk" THEN @ \cup {l} ELSE @,
                                 ![p].paths = @ \cup {<<l, <<repo, "/">> >>}]
    /\ UNCHANGED <<rnPc, rnBatches, notRnVars>>

\* the end of handleMaintainers: WriteAllMaintainers
RunMaintainersWrite(p) ==
    /\ rnPc[p] = "maintainers"
    /\ rnBatches' = [rnBatches EXCEPT ![p].maintainers =
                        <<StorageMaintainers(rnMaintainers[p])>>]
    /\ rnPc' = [rnPc EXCEPT ![p] = "running"]
    /\ UNCHANGED <<rnUsers, rnMaintainers, rnFound, notRnVars>>

\* pushUsers at the end of the call: the users of the registry go to WriteUsers
RunPushUsers(p) ==
    /\ rnPc[p] = "running"
    /\ LET reg == rnUsers[RegistryOf(p)]
       IN rnBatches' = [rnBatches EXCEPT ![p].users = <<{reg[l].UserLogin : l \in DOMAIN reg}>>]
    /\ rnPc' = [rnPc EXCEPT ![p] = "done"]
    /\ UNCHANGED <<rnUsers, rnMaintainers, rnFound, notRnVars>>

(***************************************************************************)
(* The Labeler (handlers/githubwebhook/filters/labeler).  A regular        *)
(* expression of a rule is a literal: it matches the text that is equal   *)
(* to it.  An event carries what Handle reads of it: its dynamic type,    *)
(* its action, its repository, and the title, body and label names of its *)
(* issue or pull request.                                                 *)
(***************************************************************************)
LabelNames == {"bug", "wip"}

LabelLists == UNION {[1..n -> LabelNames] : n \in 0..MaxLabels}

\* config.AutoLabel: MatchTitle, MatchBody, AbsentLabels, Labels
AutoLabels ==
    {[MatchTitle |-> <<"fix">>, MatchBody |-> <<>>, AbsentLabels |-> <<"bug">>,
      Labels |-> <<"kind/fix">>],
     [MatchTitle |-> <<>>, MatchBody |-> <<"docs">>, AbsentLabels |-> <<>>,
      Labels |-> <<"area/docs">>],
     [MatchTitle |-> <<"fix">>, MatchBody |-> <<"docs">>, AbsentLabels |-> <<"wip">>,
      Labels |-> <<>>]}

AutoLabelLists == {<<>>} \cup {<<al>> : al \in AutoLabels}

LabelerEventTypes == {"*github.IssueEvent", "*github.PullRequestEvent", "*github.PushEvent"}

LabelerEvents ==
    [Type : LabelerEventTypes, Action : {"opened", "review_requested", "closed"},
     Repo : WebhookRepos, Title : {"fix", "feat"}, Body : {"docs", "none"},
     Labels : LabelLists]

LabelerEnvs == [read : [LabelNames -> {"label", "nil", "err"}], addOk : BOOLEAN]

LbCall(name, arg, ok) == [op |-> name, arg |-> arg, ok |-> ok]

\* r.MatchString(text) for the regular expression compiled from expr
MatchString(expr, text) == expr = text

\* titleMatch, bodyMatch, labelMatch: one of the expressions matches
TitleMatch(al, title) == \E k \in 1..Len(al.MatchTitle) : MatchString(al.MatchTitle[k], title)

BodyMatch(al, body) == \E k \in 1..Len(al.MatchBody) : MatchString(al.MatchBody[k], body)

LabelMatch(al, label) ==
    \E k \in 1..Len(al.AbsentLabels) : MatchString(al.AbsentLabels[k], label)

\* a rule that matches whatever the labels are (a slip)
MatchAutoLabelAnyLabels(al, title, body, labels) ==
    TitleMatch(al, title) \/ BodyMatch(al, body)

\* matchAutoLabel(al, title, body, labels); labels are the names of the label
\* records the cache returned
MatchAutoLabel(al, title, body, labels) ==
    /\ TitleMatch(al, title) \/ BodyMatch(al, body)
    /\ \A k \in 1..Len(labels) : ~LabelMatch(al, labels[k])

\* the loop over the label names: the ReadLabel calls made, the records had, and
\* whether a call returned an error, which ends the loop
RECURSIVE ReadLabels(_, _, _)
ReadLabels(names, read, acc) ==
    IF names = <<>> THEN acc
    ELSE LET answer == read[Head(names)]
             called == Append(acc.calls, LbCall("cache.ReadLabel", <<Head(names)>>,
                                                answer # "err"))
         IN IF answer = "err" THEN [acc EXCEPT !.calls = called, !.failed = TRUE]
            ELSE ReadLabels(Tail(names), read,
                            [acc EXCEPT !.calls = called,
                                        !.labels = IF answer = "label"
                                                   THEN Append(@, Head(names)) ELSE @])

\* toApply = append(toApply, al.Labels...) for every rule of the list that matches
RECURSIVE ToApply(_, _, _, _)
ToApply(als, title, body, labels) ==
    IF als = <<>> THEN <<>>
    ELSE (IF MatchAutoLabel(Head(als), title, body, labels) THEN Head(als).Labels ELSE <<>>)
         \o ToApply(Tail(als), title, body, labels)

\* processIssue and processPullRequest, which differ in the type of the entity
\* only: the calls they make
ProcessEntity(global, orgALs, entity, env) ==
    LET r == ReadLabels(entity.Labels, env.read, [calls |-> <<>>, labels |-> <<>>,
                                                  failed |-> FALSE])
        toApply == ToApply(global, entity.Title, entity.Body, r.labels)
                       \o ToApply(orgALs, entity.Title, entity.Body, r.labels)
    IN IF r.failed THEN r.calls
       ELSE IF Len(toApply) > 0
       THEN Append(r.calls, LbCall("Issues.AddLabelsToIssue", toApply, env.addOk))
       ELSE r.calls

\* if action != "opened" && action != "review_requested" { return }
WantedActions == {"opened", "review_requested"}

\* Labeler.Handle(context, event): the calls it makes
LabelerCalls(global, monitored, event, env) ==
    LET isIssue == event.Type = "*github.IssueEvent"
        isPr == event.Type = "*github.PullRequestEvent"
        action == IF isIssue \/ isPr THEN event.Action ELSE ""
    IN IF action \notin WantedActions THEN <<>>
       ELSE IF event.Repo \notin DOMAIN monitored THEN <<>>
       ELSE ProcessEntity(global, monitored[event.Repo], event, env)

LbIdle ==
    /\ lbGlobal = <<>>
    /\ lbRepos = EmptyMap
    /\ lbPc = "idle"
    /\ lbEvent = <<>>
    /\ lbEnv = <<>>
    /\ lbCalls = <<>>

\* NewLabeler(gc, cache, orgs, autoLabels): l.repos[org.Name+"/"+repo.Name] =
\* org.AutoLabels for every configured repository
NewLabeler ==
    /\ lbGlobal \in AutoLabelLists
    /\ \E orgALs \in AutoLabelLists : lbRepos = [r \in RepoKeys |-> orgALs]
    /\ lbPc = "created"
    /\ lbEvent = <<>>
    /\ lbEnv = <<>>
    /\ lbCalls = <<>>

\* Handle is called with an event
LabelerHandle ==
    /\ lbPc = "created"
    /\ \E event \in LabelerEvents, env \in LabelerEnvs :
         /\ lbEvent' = event
         /\ lbEnv' = env
         /\ lbCalls' = LabelerCalls(lbGlobal, lbRepos, event, env)
    /\ lbPc' = "handled"
    /\ UNCHANGED <<lbGlobal, lbRepos, notLbVars>>

(***************************************************************************)
(* SpecFlags: ConvFilterFlags applied to every filter string of the bound. *)
(***************************************************************************)
\* the idle value of the handleActivity variables: no pass, an empty table
ActIdle ==
    /\ now = 0
    /\ botActivity = [r \in RepoKeys |-> NoRow]
    /\ ha = [p \in Procs |-> NoPass]
    /\ fetched = {}
    /\ faults = 0
    /\ history = [k \in RepoKeys \X Fields |-> <<ZeroTime>>]

FlagsInit ==
    /\ filter \in FilterStrings
    /\ convPc = "call"
    /\ convOut = [flags |-> 0, err |-> NoError]
    /\ ActIdle
    /\ SyncIdle
    /\ CoIdle
    /\ OwIdle
    /\ PrIdle
    /\ EvIdle
    /\ RfIdle
    /\ MtIdle
    /\ ZhIdle
    /\ RnIdle
    /\ LbIdle

CallConvFilterFlags ==
    /\ convPc = "call"
    /\ convPc' = "returned"
    /\ convOut' = ConvFilterFlags(filter)
    /\ UNCHANGED <<filter, notFlagVars>>

FlagsNext == CallConvFilterFlags

SpecFlags == FlagsInit /\ [][FlagsNext]_vars

(***************************************************************************)
(* SpecActivity: the processes run handleActivity passes on one repository,*)
(* any field, interleaved statement by statement.                          *)
(***************************************************************************)
FlagsIdle ==
    /\ filter = <<>>
    /\ convPc = "returned"
    /\ convOut = ConvFilterFlags(<<>>)

ActivityNext ==
    \E p \in Procs :
        \/ PassBegin(p)
        \/ HandleActivityNow(p)
        \/ HandleActivityRead(p)
        \/ HandleActivityCallback(p)
        \/ HandleActivityUpdate(p)

\* no pass has run: no BotActivity row yet, every bookmark at the zero time
ActivityInit == ActIdle /\ FlagsIdle /\ SyncIdle /\ CoIdle /\ OwIdle /\ PrIdle /\ EvIdle /\ RfIdle /\ MtIdle /\ ZhIdle /\ RnIdle /\ LbIdle

SpecActivity == ActivityInit /\ [][ActivityNext]_vars

(***************************************************************************)
(* SpecSync: one run of Sync, for every set of filter flags.               *)
(***************************************************************************)
\* the filter flags the runs are started with: none, all, each flag alone, and
\* all of the repository pass without the maintainers
SyncFlags ==
    LET each == {Issues, Prs, Maintainers, Members, Labels, ZenHub, RepoComments, Events}
    IN {0, AllFlags, RepoPassFlags} \cup each

\* ss := &syncState{users: make(map), flags: flags}; var orgs, repos
SyncInit ==
    /\ flags \in SyncFlags
    /\ pc = "fetch"
    /\ orgs = <<>>
    /\ repos = <<>>
    /\ orgIdx = 0
    /\ repoIdx = 0
    /\ users = EmptyMap
    /\ registered = <<>>
    /\ trace = <<>>
    /\ syncErr = NoError
    /\ store = EmptyStore
    /\ maintainers = EmptyMap
    /\ ActIdle
    /\ FlagsIdle
    /\ CoIdle
    /\ OwIdle
    /\ PrIdle
    /\ EvIdle
    /\ RfIdle
    /\ MtIdle
    /\ ZhIdle
    /\ RnIdle
    /\ LbIdle

SyncNext ==
    \/ FetchOrgsAndRepos
    \/ WriteOrgs
    \/ WriteRepos
    \/ OrgLoop
    \/ RepoLoop
    \/ HandleLabels
    \/ StartIssues
    \/ HandleIssues
    \/ StartIssueComments
    \/ HandleIssueComments
    \/ HandleZenHub
    \/ HandlePullRequests
    \/ StartPullRequestReviewComments
    \/ HandlePullRequestReviewComments
    \/ AfterActivity
    \/ HandleRepoComments
    \/ HandleEvents
    \/ HandleMembers
    \/ StartMaintainers
    \/ HandleMaintainersRepo
    \/ WriteAllMaintainers
    \/ PushUsers
    \/ HandleActivityNow("sync")
    \/ HandleActivityRead("sync")
    \/ HandleActivityUpdate("sync")

SpecSync == SyncInit /\ [][SyncNext]_vars

(***************************************************************************)
(* SpecCodeowners: handleCODEOWNERS on every file of CodeownersSources.    *)
(***************************************************************************)
CodeownersInit == CodeownersCalled /\ FlagsIdle /\ ActIdle /\ SyncIdle /\ OwIdle /\ PrIdle /\ EvIdle /\ RfIdle /\ MtIdle /\ ZhIdle /\ RnIdle /\ LbIdle

CodeownersNext ==
    \/ CodeownersGetContent
    \/ CodeownersNextLine
    \/ CodeownersReturn

SpecCodeowners == CodeownersInit /\ [][CodeownersNext]_vars

(***************************************************************************)
(* SpecOwners: handleOWNERS on every tree of Trees.                        *)
(***************************************************************************)
OwnersInit == OwnersCalled /\ FlagsIdle /\ ActIdle /\ SyncIdle /\ CoIdle /\ PrIdle /\ EvIdle /\ RfIdle /\ MtIdle /\ ZhIdle /\ RnIdle /\ LbIdle

OwnersNext ==
    \/ OwnersListCommits
    \/ OwnersGetTree
    \/ OwnersEntry
    \/ OwnersFile
    \/ OwnersReturn

SpecOwners == OwnersInit /\ [][OwnersNext]_vars

(***************************************************************************)
(* SpecPullRequests: handlePullRequests on every page of pull requests,    *)
(* from every store.                                                       *)
(***************************************************************************)
PullRequestsInit == PullRequestsCalled /\ FlagsIdle /\ ActIdle /\ SyncIdle /\ CoIdle /\ OwIdle /\ EvIdle /\ RfIdle /\ MtIdle /\ ZhIdle /\ RnIdle /\ LbIdle

PullRequestsNext ==
    \/ PullRequestsPage
    \/ PullRequestsReturn
    \/ PullRequestNext
    \/ PullRequestReviews
    \/ PullRequestFiles
    \/ PullRequestsWrite

SpecPullRequests == PullRequestsInit /\ [][PullRequestsNext]_vars

(***************************************************************************)
(* SpecEvents: handleEvents on every page of raw events.                   *)
(***************************************************************************)
EventsInit == EventsCalled /\ FlagsIdle /\ ActIdle /\ SyncIdle /\ CoIdle /\ OwIdle /\ PrIdle /\ RfIdle /\ MtIdle /\ ZhIdle /\ RnIdle /\ LbIdle

EventsNext ==
    \/ EventsPage
    \/ EventsWrite
    \/ EventsFetched
    \/ IssueEventsPage
    \/ IssueEventsFetched

SpecEvents == EventsInit /\ [][EventsNext]_vars

(***************************************************************************)
(* SpecRefresher: the refresher handling the webhook events delivered to   *)
(* it, next to a BotActivity table.                                        *)
(***************************************************************************)
RefresherInit ==
    /\ NewRefresher
    /\ BookmarksAtRest
    /\ FlagsIdle
    /\ SyncIdle
    /\ CoIdle
    /\ OwIdle
    /\ PrIdle
    /\ EvIdle
    /\ MtIdle
    /\ ZhIdle
    /\ RnIdle
    /\ LbIdle

RefresherNext ==
    \/ Handle

SpecRefresher == RefresherInit /\ [][RefresherNext]_vars

(***************************************************************************)
(* SpecMaintainers: the maintainer passes of one run, one per configured   *)
(* organization, over every answer of the cache and of the upstream.       *)
(***************************************************************************)
MaintainersInit ==
    /\ MaintainersCalled
    /\ FlagsIdle
    /\ ActIdle
    /\ SyncIdle
    /\ CoIdle
    /\ OwIdle
    /\ PrIdle
    /\ EvIdle
    /\ RfIdle
    /\ ZhIdle
    /\ RnIdle
    /\ LbIdle

MaintainersNext ==
    \/ MaintainersStart
    \/ MaintainersGetContents
    \/ MaintainersLogin
    \/ MaintainersFileDone
    \/ MaintainersWrite
    \/ MaintainersNextOrg

SpecMaintainers == MaintainersInit /\ [][MaintainersNext]_vars

(***************************************************************************)
(* SpecZenHub: handleZenHub on a repository of up to MaxIssues issues,     *)
(* with every answer of the lookups and of the writes.                     *)
(***************************************************************************)
ZenHubInit ==
    /\ ZenHubCalled
    /\ FlagsIdle
    /\ ActIdle
    /\ SyncIdle
    /\ CoIdle
    /\ OwIdle
    /\ PrIdle
    /\ EvIdle
    /\ RfIdle
    /\ MtIdle
    /\ RnIdle
    /\ LbIdle

ZenHubNext ==
    \/ ZenHubQuery
    \/ ZenHubIssue
    \/ ZenHubReturn

SpecZenHub == ZenHubInit /\ [][ZenHubNext]_vars

(***************************************************************************)
(* SpecRuns: the calls of Sync of Procs on one Syncer, in every            *)
(* interleaving of their steps.                                            *)
(***************************************************************************)
RunsInit ==
    /\ SyncerCreated
    /\ FlagsIdle
    /\ ActIdle
    /\ SyncIdle
    /\ CoIdle
    /\ OwIdle
    /\ PrIdle
    /\ EvIdle
    /\ RfIdle
    /\ MtIdle
    /\ ZhIdle
    /\ LbIdle

RunsNext ==
    \E p \in Procs :
        \/ RunSync(p)
        \/ RunAddUsers(p)
        \/ RunMaintainersStart(p)
        \/ RunMaintainerLogin(p)
        \/ RunMaintainersWrite(p)
        \/ RunPushUsers(p)

SpecRuns == RunsInit /\ [][RunsNext]_vars

(***************************************************************************)
(* SpecLabeler: Labeler.Handle on an event, for every configuration of a   *)
(* global and an org-level rule and every answer of the cache.             *)
(***************************************************************************)
LabelerInit ==
    /\ NewLabeler
    /\ FlagsIdle
    /\ ActIdle
    /\ SyncIdle
    /\ CoIdle
    /\ OwIdle
    /\ PrIdle
    /\ EvIdle
    /\ RfIdle
    /\ MtIdle
    /\ ZhIdle
    /\ RnIdle

LabelerNext == LabelerHandle

SpecLabeler == LabelerInit /\ [][LabelerNext]_vars

(***************************************************************************)
(* C1.  What the claim says of a filter string, stated on the string       *)
(* itself: it is well formed when names and separators alternate.          *)
(***************************************************************************)
FlagValue(name) ==
    CASE name = "issues"       -> 1
      [] name = "prs"          -> 2
      [] name = "maintainers"  -> 4
      [] name = "members"      -> 8
      [] name = "labels"       -> 16
      [] name = "zenhub"       -> 32
      [] name = "repocomments" -> 64
      [] name = "events"       -> 128

RECURSIVE SumFlags(_)
SumFlags(names) ==
    IF names = {} THEN 0
    ELSE LET n == CHOOSE x \in names : TRUE IN FlagValue(n) + SumFlags(names \ {n})

\* every token is one of the eight names: names at odd places, separators between
AllTokensValid(s) ==
    /\ Len(s) % 2 = 1
    /\ \A i \in 1..Len(s) : IF i % 2 = 1 THEN s[i] \in FlagNames ELSE s[i] = ","

NamesIn(s) == {s[i] : i \in {j \in 1..Len(s) : j % 2 = 1}}

\* C1: ConvFilterFlags returns the OR of the flags of a string of valid tokens
\* (any order, repeats allowed) with no error, all eight flags for the empty
\* string, and an error with the zero flags value as soon as one token is not
\* a flag name (wrong case, empty token of a stray comma, anything else).
C1_ConvFilterFlags ==
    convPc = "returned" =>
        /\ filter = <<>> => convOut = [flags |-> 255, err |-> NoError]
        /\ AllTokensValid(filter) =>
               convOut = [flags |-> SumFlags(NamesIn(filter)), err |-> NoError]
        /\ (filter # <<>> /\ ~AllTokensValid(filter)) =>
               (convOut.err # NoError /\ convOut.flags = 0)

\* a stray trailing comma after two valid tokens: the error drops the flags gathered
C1_Witness ==
    /\ convPc = "returned"
    /\ filter = <<"events", ",", "issues", ",">>
    /\ convOut.flags = 0
    /\ convOut.err = <<"unknown filter flag", <<>>>>

(***************************************************************************)
(* Claims on handleActivity (SpecActivity).  A pass that has returned is   *)
(* at "ret" until its process starts the next one.                         *)
(***************************************************************************)
Returned(p) == ha[p].pc = "ret"

\* the update of p's pass ran, the store accepted it and it moved the field
Advanced(p) == Returned(p) /\ ha[p].upd = "ok" /\ ha[p].after # ha[p].before

\* C2: with no concurrent writer, a pass whose read, callback and bookmark update
\* all succeed leaves the field equal to the start time it captured before the
\* fetch, not to a later time.
C2_BookmarkIsCapturedStart ==
    \A p \in Procs :
        (/\ Returned(p)
         /\ ha[p].upd = "ok"
         /\ ~ha[p].readFailed
         /\ ~ha[p].changed)
        => ha[p].after = ha[p].start

\* such a pass, with a non-zero prior bookmark, ending when the clock has moved on
C2_Witness ==
    \E p \in Procs :
        /\ Returned(p) /\ ha[p].upd = "ok" /\ ~ha[p].readFailed /\ ~ha[p].changed
        /\ ha[p].priorStart # ZeroTime
        /\ ha[p].doneAt > ha[p].start
        /\ FieldValue(botActivity, ha[p].repo, ha[p].field) = ha[p].start

\* C3: a pass whose field another writer changed between its read and its update
\* leaves the field as the other writer set it, makes one update attempt only and
\* returns success; and of two passes that read the same prior bookmark at most
\* one advances the field.
C3_GuardedAdvance ==
    /\ \A p \in Procs :
           (Returned(p) /\ ha[p].upd = "ok" /\ ha[p].changed)
           => /\ ha[p].after = ha[p].before
              /\ ha[p].before # ha[p].priorStart
              /\ ha[p].err = NoError
              /\ ha[p].attempts = 1
    /\ \A p, q \in Procs :
           (/\ p # q
            /\ ha[p].repo = ha[q].repo /\ ha[p].field = ha[q].field
            /\ ha[p].priorStart = ha[q].priorStart)
           => ~(Advanced(p) /\ Advanced(q))

\* two passes read the same bookmark; q advanced it, p then found it changed
C3_Witness ==
    \E p, q \in Procs :
        /\ p # q
        /\ Returned(p) /\ Returned(q)
        /\ ha[p].repo = ha[q].repo /\ ha[p].field = ha[q].field
        /\ ha[p].priorStart = ha[q].priorStart
        /\ ~ha[p].readFailed /\ ~ha[q].readFailed
        /\ Advanced(q)
        /\ ha[p].changed /\ ha[p].upd = "ok"
        /\ ha[p].after = ha[q].start
        /\ FieldValue(botActivity, ha[p].repo, ha[p].field) = ha[q].start

\* C4: every value a bookmark has taken after the zero time is the start time
\* of a pass that captured it before fetching, whose callback succeeded, and
\* that fetched from the value the field held just before: the windows chain.
C4_NoGapInWindows ==
    \A k \in RepoKeys \X Fields :
        LET h == history[k] IN
        /\ h[1] = ZeroTime
        /\ FieldValue(botActivity, k[1], k[2]) = h[Len(h)]
        /\ \A i \in 1..(Len(h) - 1) :
               /\ h[i + 1] # ZeroTime
               /\ \E w \in fetched :
                      /\ w.repo = k[1] /\ w.field = k[2]
                      /\ w.since = h[i] /\ w.start = h[i + 1]
                      /\ w.start <= w.at

\* a bookmark advanced twice, in a behaviour where a call failed as well
C4_Witness ==
    \E k \in RepoKeys \X Fields :
        /\ Len(history[k]) = 3
        /\ faults > 0
        /\ FieldValue(botActivity, k[1], k[2]) = history[k][3]

\* C7: once a pass has advanced the field from its guard value B to its start
\* time T1 # B, running the update callback again with guard B and any
\* candidate time leaves the BotActivity record as it is.
C7_UpdateIdempotent ==
    \A p \in Procs :
        (Advanced(p) /\ ha[p].start # ha[p].priorStart)
        => \A t \in 0..(MaxTime + 1) :
               UpdateCallback(ha[p].afterRec, ha[p].field, ha[p].priorStart, t)
                   = ha[p].afterRec

\* a pass advanced a bookmark that was itself non-zero
C7_Witness ==
    \E p \in Procs :
        /\ Advanced(p)
        /\ ha[p].priorStart # ZeroTime
        /\ ha[p].afterRec[ha[p].field] = ha[p].start

(***************************************************************************)
(* Properties of a run of Sync (SpecSync).                                 *)
(***************************************************************************)
\* the handlers handleActivity calls back
ActivityHandlers == {"handleIssues", "handleIssueComments", "handlePullRequestReviewComments"}

\* the positions of the history of the run
TraceIdx == 1..Len(trace)

\* an entry of the history, as the error Sync returns for it
ErrorOf(e) == <<e.op, e.org, e.repo>>

\* C5: when the callback handed to handleActivity returns an error, the pass makes
\* no UpdateBotActivity call and the bookmark field keeps the value it had when the
\* pass began; the error reaches Sync, which returns it, and nothing is fetched or
\* written after the failed callback in the run.
C5_CallbackErrorAborts ==
    /\ \A i \in TraceIdx :
         (trace[i].op \in ActivityHandlers /\ ~trace[i].ok)
            => /\ i = Len(trace)
               /\ ha["sync"].err = ErrorOf(trace[i])
               /\ ha["sync"].pc \in {"ret", "idle"}
               /\ ha["sync"].attempts = 0
               /\ ha["sync"].upd = "none"
               /\ FieldValue(botActivity, ha["sync"].repo, ha["sync"].field)
                     = ha["sync"].entry
               /\ ha["sync"].pc = "idle" => (pc = "done" /\ syncErr = ErrorOf(trace[i]))
    /\ ha["sync"].err # NoError => ha["sync"].pc \in {"ret", "idle"}

\* a second visit of a repository fails in the callback for the issue comments:
\* the run is over with that error and the bookmark is the one of the first visit
C5_Witness ==
    /\ pc = "done"
    /\ trace # <<>>
    /\ trace[Len(trace)] = Op("handleIssueComments", "org1", "r1", FALSE)
    /\ syncErr = <<"handleIssueComments", "org1", "r1">>
    /\ ha["sync"].entry # ZeroTime
    /\ FieldValue(botActivity, ha["sync"].repo, "LastIssueCommentSyncStart")
          = ha["sync"].entry

\* C6: when the callback succeeds and UpdateBotActivity fails, handleActivity
\* returns nil: the run goes on after it, and a run whose only failures are of
\* that kind returns what it returns without them, nil.
C6_UpdateErrorIsSwallowed ==
    /\ ha["sync"].upd = "failed" => ha["sync"].err = NoError
    /\ \A i \in TraceIdx :
         (trace[i].op = "UpdateBotActivity" /\ ~trace[i].ok /\ pc = "done")
            => /\ i < Len(trace)
               /\ syncErr # <<"UpdateBotActivity">>
    /\ (/\ pc = "done"
        /\ \A i \in TraceIdx : ~trace[i].ok => trace[i].op = "UpdateBotActivity")
          => syncErr = NoError

\* the update of the issues bookmark failed, the issue comments of the repository
\* were handled next, and the run ended with WriteUsers and nil
C6_Witness ==
    /\ pc = "done"
    /\ syncErr = NoError
    /\ \E i \in TraceIdx :
         /\ trace[i] = Op("UpdateBotActivity", "org1", "r1", FALSE)
         /\ i + 1 \in TraceIdx
         /\ trace[i + 1] = Op("handleIssueComments", "org1", "r1", TRUE)
    /\ trace[Len(trace)].op = "WriteUsers"

\* the position of the last registration of a login
LastRegistration(login) ==
    CHOOSE i \in 1..Len(registered) :
        /\ registered[i].UserLogin = login
        /\ \A j \in 1..Len(registered) : registered[j].UserLogin = login => j <= i

\* C8: at every point of a run the registry has exactly the logins registered so
\* far, one entry each, and the entry of a login is the whole record that was
\* registered last for it.
C8_RegistryLastWins ==
    /\ DOMAIN users = {registered[i].UserLogin : i \in 1..Len(registered)}
    /\ \A l \in DOMAIN users :
         /\ users[l].UserLogin = l
         /\ users[l] = registered[LastRegistration(l)]

\* a login registered with its full profile and then as a stub: the registry has
\* the stub, without the name of the earlier record
C8_Witness ==
    /\ Len(registered) = 2
    /\ registered[1] = [UserLogin |-> "alice", Name |-> "Name"]
    /\ registered[2] = [UserLogin |-> "alice", Name |-> ""]
    /\ users["alice"].Name = ""

\* the positions of the history at which WriteUsers was called
WriteUsersCalls == {i \in TraceIdx : trace[i].op = "WriteUsers"}

\* C9: WriteUsers is called at most once in a run, as its last operation, after
\* the loop over the organizations has ended, with a batch that has every login
\* registered in the run exactly once; a run that returns nil has made the call,
\* and a run that ended with the error of another operation has not.
C9_UsersFlushedOnce ==
    /\ Cardinality(WriteUsersCalls) <= 1
    /\ \A i \in WriteUsersCalls :
         LET batch == trace[i].arg IN
         /\ i = Len(trace)
         /\ pc = "done"
         /\ orgIdx = Len(orgs) + 1
         /\ {batch[k].UserLogin : k \in 1..Len(batch)}
               = {registered[k].UserLogin : k \in 1..Len(registered)}
         /\ \A j, k \in 1..Len(batch) : batch[j].UserLogin = batch[k].UserLogin => j = k
         /\ syncErr = (IF trace[i].ok THEN NoError ELSE <<"WriteUsers">>)
    /\ (pc = "done" /\ syncErr = NoError)
          => (WriteUsersCalls # {} /\ trace[Len(trace)].ok)
    /\ (pc = "done" /\ syncErr # NoError /\ syncErr # <<"WriteUsers">>)
          => WriteUsersCalls = {}

\* a run that returned nil and registered two logins: the batch has both, one of
\* them still without a name because its profile lookup failed
C9_Witness ==
    /\ pc = "done"
    /\ syncErr = NoError
    /\ DOMAIN users = {"alice", "bob"}
    /\ Len(trace[Len(trace)].arg) = 2
    /\ \E k \in 1..2 : trace[Len(trace)].arg[k].Name = ""
    /\ \E k \in 1..2 : trace[Len(trace)].arg[k].Name # ""

\* the operations on the entities derived from organizations and repositories
DerivedOps ==
    {"handleLabels", "handleIssues", "handleIssueComments", "handleZenHub",
     "handlePullRequests", "handlePullRequestReviewComments", "handleRepoComments",
     "handleEvents", "handleMembers", "maintainersOfRepo", "WriteAllMaintainers",
     "UpdateBotActivity", "handleRepo"}

\* the repositories a pass went through, in order
RECURSIVE VisitsFrom(_, _)
VisitsFrom(i, name) ==
    IF i > Len(trace) THEN <<>>
    ELSE (IF trace[i].op = name
          THEN <<[OrgLogin |-> trace[i].org, RepoName |-> trace[i].repo]>>
          ELSE <<>>) \o VisitsFrom(i + 1, name)

\* the repositories in the store, organization by organization of the store
RECURSIVE WrittenPlan(_)
WrittenPlan(i) ==
    IF i > Len(store.orgs) THEN <<>>
    ELSE SelectSeq(store.repos, LAMBDA r : r.OrgLogin = store.orgs[i].OrgLogin)
         \o WrittenPlan(i + 1)

IsPrefix(s, t) == Len(s) <= Len(t) /\ \A i \in 1..Len(s) : s[i] = t[i]

\* C10: every operation on a derived entity comes after a WriteOrgs and a later
\* WriteRepos that both succeeded, and the repository pass and the maintainer pass
\* go through the repositories that were written, each once, organization by
\* organization; a run that returns nil has gone through all of them.
C10_OrgRepoTruthFirst ==
    /\ LET orgsWritten == {j \in TraceIdx : trace[j] = Op("WriteOrgs", "", "", TRUE)}
           reposWritten == {k \in TraceIdx : trace[k] = Op("WriteRepos", "", "", TRUE)}
       IN \A i \in TraceIdx :
            trace[i].op \in DerivedOps
               => \E j \in orgsWritten : \E k \in reposWritten : j < k /\ k < i
    /\ (\E i \in TraceIdx : trace[i].op \in DerivedOps)
          => (store.orgs = orgs /\ store.repos = repos)
    /\ LET plan == WrittenPlan(1)
           visited == VisitsFrom(1, "handleRepo")
           resolved == VisitsFrom(1, "maintainersOfRepo")
       IN /\ IsPrefix(visited, plan)
          /\ IsPrefix(resolved, plan)
          /\ (pc = "done" /\ syncErr = NoError /\ HasFlag(flags, RepoPassFlags))
                => visited = plan
          /\ (pc = "done" /\ syncErr = NoError /\ HasFlag(flags, Maintainers))
                => resolved = plan

\* a run with every flag that returned nil: both passes went through the two
\* repository records that were written
C10_Witness ==
    /\ pc = "done"
    /\ syncErr = NoError
    /\ flags = AllFlags
    /\ Len(store.repos) = 2
    /\ VisitsFrom(1, "handleRepo") = store.repos
    /\ VisitsFrom(1, "maintainersOfRepo") = store.repos

\* the handlers of handleRepo, in the order of its statements
RepoHandlers ==
    <<"handleLabels", "handleIssues", "handleIssueComments", "handleZenHub",
      "handlePullRequests", "handlePullRequestReviewComments", "handleRepoComments",
      "handleEvents">>

\* the flag that enables each of them
RepoHandlerFlag ==
    <<Labels, Issues, Issues, ZenHub, Prs, Prs, RepoComments, Events>>

\* the handlers a set of flags enables, in the order of handleRepo
RECURSIVE EnabledFrom(_, _)
EnabledFrom(i, f) ==
    IF i > Len(RepoHandlers) THEN <<>>
    ELSE (IF HasFlag(f, RepoHandlerFlag[i]) THEN <<RepoHandlers[i]>> ELSE <<>>)
         \o EnabledFrom(i + 1, f)

IsRepoHandler(name) == \E i \in 1..Len(RepoHandlers) : RepoHandlers[i] = name

\* the handler calls of the visit of a repository, from position i of the history
\* up to the next visit or the end of the repository pass
RECURSIVE VisitFrom(_)
VisitFrom(i) ==
    IF i > Len(trace) THEN <<>>
    ELSE IF IsRepoHandler(trace[i].op) THEN <<trace[i]>> \o VisitFrom(i + 1)
    ELSE IF trace[i].op = "UpdateBotActivity" THEN VisitFrom(i + 1)
    ELSE <<>>

\* the positions at which a visit of a repository begins
VisitStarts == {v \in TraceIdx : trace[v].op = "handleRepo"}

AbortingOps ==
    {"fetchOrgs", "WriteOrgs", "WriteRepos", "handleMembers", "WriteAllMaintainers"}
        \cup {RepoHandlers[i] : i \in 1..Len(RepoHandlers)}

\* C12: when the enumeration, WriteOrgs, WriteRepos, a handler of the repository
\* pass of an organization, or the write of its maintainers fails, the failure is
\* the last operation of the run: Sync returns its error, no later organization
\* is processed, nothing more is written and WriteUsers is not called.
C12_FailFast ==
    \A i \in TraceIdx :
        (trace[i].op \in AbortingOps /\ ~trace[i].ok)
           => /\ i = Len(trace)
              /\ WriteUsersCalls = {}
              /\ store.users = <<>>
              /\ pc \in {"done", "issues.ha", "issueComments.ha", "prComments.ha"}
              /\ pc = "done" => (syncErr # NoError /\ syncErr[1] = trace[i].op)
              /\ pc # "done" => (ha["sync"].pc = "ret" /\ ha["sync"].err = ErrorOf(trace[i]))

\* the members of the first organization fail with a user in the registry: the
\* run is over, the second organization was not reached and no user was written
C12_Witness ==
    /\ pc = "done"
    /\ trace # <<>>
    /\ trace[Len(trace)] = Op("handleMembers", "org1", "", FALSE)
    /\ syncErr = <<"handleMembers", "org1", "">>
    /\ orgIdx = 1
    /\ Len(orgs) = 2
    /\ DOMAIN users # {}
    /\ store.users = <<>>

\* the operations of the maintainer pass of an organization
MaintainerOps == {"maintainersOfRepo", "WriteAllMaintainers"}

\* the positions at which the maintainer pass of an organization ended
MaintainerPasses(org) ==
    {i \in TraceIdx : trace[i].op = "WriteAllMaintainers" /\ trace[i].org = org}

\* the operations of the repository pass of an organization
RepoPassOps == {"handleRepo", "handleMembers"} \cup {RepoHandlers[i] : i \in 1..Len(RepoHandlers)}

\* C13 as stated: in a run with the Maintainers flag, every organization whose
\* repository pass began has had its maintainer pass by the end of the run,
\* whether that repository pass succeeded or not.
C13_MaintainersWhateverTheRepoPass ==
    (pc = "done" /\ HasFlag(flags, Maintainers))
       => \A o \in 1..Len(orgs) :
             (\E i \in TraceIdx : trace[i].op \in RepoPassOps /\ trace[i].org = orgs[o].OrgLogin)
                => MaintainerPasses(orgs[o].OrgLogin) # {}

\* C13, amended: the maintainer pass depends on the Maintainers flag alone, not on
\* the flags of the repository pass: a run with the flag that returns nil has made
\* one maintainer pass per organization and a run without it none.  It is gated by
\* errors: every operation of a maintainer pass comes after operations that all
\* succeeded as far as Sync is concerned, so an organization whose repository pass
\* failed gets no maintainer pass.
C13_MaintainersGatedByErrorsOnly ==
    /\ (pc = "done" /\ syncErr = NoError /\ HasFlag(flags, Maintainers))
          => \A o \in 1..Len(orgs) : Cardinality(MaintainerPasses(orgs[o].OrgLogin)) = 1
    /\ ~HasFlag(flags, Maintainers)
          => \A i \in TraceIdx : trace[i].op \notin MaintainerOps
    /\ LET failures == {j \in TraceIdx : trace[j].op \in AbortingOps /\ ~trace[j].ok}
       IN \A i \in TraceIdx :
            trace[i].op \in MaintainerOps => \A j \in failures : i <= j
    /\ \A i \in TraceIdx :
          (trace[i].op \in RepoPassOps /\ trace[i].op \in AbortingOps /\ ~trace[i].ok)
             => MaintainerPasses(trace[i].org) = {}

\* a run with every flag in which the events handler of the first organization
\* failed: the run is over and no maintainer pass was made
C13_Witness ==
    /\ pc = "done"
    /\ HasFlag(flags, Maintainers)
    /\ trace # <<>>
    /\ trace[Len(trace)] = Op("handleEvents", "org1", "r1", FALSE)
    /\ \A i \in TraceIdx : trace[i].op \notin MaintainerOps

(***************************************************************************)
(* Properties of handleCODEOWNERS (SpecCodeowners).                        *)
(***************************************************************************)
\* the pattern of a rule as the claim reads it: without a leading "/" and a trailing
\* "/*", and nothing when that leaves a bare "*"
ExpectedSuffix(pattern) ==
    LET a == IF pattern[1] = "/" THEN SubSeq(pattern, 2, Len(pattern)) ELSE pattern
        b == IF Len(a) >= 2 /\ a[Len(a) - 1] = "/" /\ a[Len(a)] = "*"
             THEN SubSeq(a, 1, Len(a) - 2) ELSE a
    IN IF b = <<"*">> THEN <<>> ELSE b

\* the paths the lines from i on give a login: for each rule, one per listing
RECURSIVE ExpectedPathsFrom(_, _)
ExpectedPathsFrom(i, name) ==
    IF i > Len(coSrc) THEN <<>>
    ELSE LET l == coSrc[i]
             n == Cardinality({k \in 1..Len(l.logins) : l.logins[k][Len(l.logins[k])] = name})
         IN (IF l.kind = "rule"
             THEN [k \in 1..n |-> <<FileRepoName, "/">> \o ExpectedSuffix(l.pattern)]
             ELSE <<>>) \o ExpectedPathsFrom(i + 1, name)

\* the paths a login has in the map
PathsOf(ms, login) == IF login \in DOMAIN ms THEN ms[login].Paths ELSE <<>>

\* the two lines of the claim, as text
ClaimLines ==
    <<"/", "a", "/", "b", "/", "*", " ", "@", "alice", " ", "@", "bob", "\n",
      "*", " ", "@", "carol">>

\* what handleCODEOWNERS makes of them
RECURSIVE ParsedFrom(_, _, _)
ParsedFrom(ms, lines, i) ==
    IF i > Len(lines) THEN ms
    ELSE ParsedFrom(CodeownersLine(ms, FileOrg, FileRepoName, lines[i], {}).maintainers,
                    lines, i + 1)

\* a file was read to its end, and what the map then has
CodeownersDone == coPc = "returned"

CodeownersAsExpected ==
    /\ DOMAIN coMaintainers \subseteq {<<"alice">>, <<"bob">>}
    /\ \A name \in {"alice", "bob"} :
         PathsOf(coMaintainers, <<name>>) =
            IF <<name>> \in coUnknown THEN <<>> ELSE ExpectedPathsFrom(1, name)

\* C14: every line of a CODEOWNERS file is handled: a blank line and a line whose
\* first non-blank character is "#" give no path, and a rule gives each login it
\* lists (without a leading "@") the path of the repository, "/", and the pattern
\* without a leading "/" and a trailing "/*", a bare "*" giving nothing; the two
\* lines "/a/b/* @alice @bob" and "* @carol" give "<repo>/a/b" to alice and bob
\* and "<repo>/" to carol.
C14_CodeownersParsing ==
    /\ coPc # "panic"
    /\ CodeownersDone => CodeownersAsExpected
    /\ LET ms == ParsedFrom(EmptyMap, SplitLines(ClaimLines), 1) IN
       /\ PathsOf(ms, <<"alice">>) = <<<<FileRepoName, "/", "a", "/", "b">>>>
       /\ PathsOf(ms, <<"bob">>) = <<<<FileRepoName, "/", "a", "/", "b">>>>
       /\ PathsOf(ms, <<"carol">>) = <<<<FileRepoName, "/">>>>

\* what holds of the files that are read to their end
C14_ParsedFilesAsExpected ==
    /\ CodeownersDone => CodeownersAsExpected
    /\ coPc = "panic" =>
          /\ coSrc[coIdx].kind = "blank"
          /\ "\r" \in {coSrc[coIdx].indent[k] : k \in 1..Len(coSrc[coIdx].indent)}

(***************************************************************************)
(* Properties of handleOWNERS (SpecOwners).                                *)
(***************************************************************************)
\* an entry the claim has fetched: its last segment is OWNERS, its first not vendor
ShouldFetch(path) == path[Len(path)] = "OWNERS" /\ path[1] # "vendor"

\* the entries the loop over the tree is past
EntriesSeen ==
    IF owPc \in {"entries", "returned"} THEN 1..(owIdx - 1) ELSE {}

\* the paths the claim gives a login once the tree is handled
ExpectedOwnerPaths(user) ==
    {<<FileRepoName, "/">> \o SubSeq(owTree[k].path, 1, Len(owTree[k].path) - 1) :
        k \in {k \in 1..Len(owTree) :
                 /\ ShouldFetch(owTree[k].path)
                 /\ \E a \in 1..Len(owTree[k].file.Approvers) :
                       owTree[k].file.Approvers[a] = user}}

\* C15: an entry of the tree is downloaded and parsed exactly when its last
\* segment is OWNERS and its first is not vendor; when handleOWNERS returns nil
\* each approver of a parsed file has got, once, the path of the repository, "/"
\* and the path of the entry without its OWNERS suffix, and nobody has got a path
\* for being a reviewer.
C15_OwnersFallback ==
    /\ \A k \in 1..Len(owFetched) : ShouldFetch(owFetched[k])
    /\ \A k \in EntriesSeen :
          ShouldFetch(owTree[k].path) => \E j \in 1..Len(owFetched) : owFetched[j] = owTree[k].path
    /\ owPc = "returned" =>
          \A user \in {<<"dave">>, <<"erin">>} :
             LET paths == PathsOf(owMaintainers, user) IN
             /\ {paths[k] : k \in 1..Len(paths)} =
                   (IF user \in owUnknown THEN {} ELSE ExpectedOwnerPaths(user))
             /\ \A j, k \in 1..Len(paths) : paths[j] = paths[k] => j = k

\* the tree has a/b/OWNERS, approved by dave and reviewed by erin, and
\* vendor/OWNERS: only the first was downloaded, dave has <repo>/a/b/ and erin
\* has nothing
C15_Witness ==
    /\ owPc = "returned"
    /\ Len(owTree) = 2
    /\ owTree[1].path = <<"a", "/", "b", "/", "OWNERS">>
    /\ owTree[2].path = <<"vendor", "/", "OWNERS">>
    /\ owTree[2].file.Approvers # <<>>
    /\ owFetched = <<owTree[1].path>>
    /\ PathsOf(owMaintainers, <<"dave">>) = <<<<FileRepoName, "/", "a", "/", "b", "/">>>>
    /\ <<"erin">> \notin DOMAIN owMaintainers

\* the positions at which the handling of a repository failed in a maintainer pass
FailedRepoMaintainers == {i \in TraceIdx : trace[i].op = "maintainersOfRepo" /\ ~trace[i].ok}

\* the repositories a maintainer pass went through before its write at position j
RECURSIVE ReposBefore(_)
ReposBefore(j) ==
    IF j > 1 /\ trace[j - 1].op = "maintainersOfRepo" THEN 1 + ReposBefore(j - 1) ELSE 0

PushLookups == {j \in TraceIdx : trace[j].op = "Users.Get"}

\* the lookups pushUsers made for a login
LookupsOf(login) == {j \in PushLookups : trace[j].arg[1].UserLogin = login}

\* C19: when pushUsers has run, every accumulated user without a name was looked
\* up exactly once, before the write, and no user with a name was looked up; in
\* the batch a user whose lookup succeeded is the fetched profile and a user whose
\* lookup failed, or who had a name, is the accumulated record; the only error
\* pushUsers and Sync return then is that of WriteUsers, whatever the lookups did.
C19_UserBackfill ==
    /\ PushLookups # {} => WriteUsersCalls # {}
    /\ \A i \in WriteUsersCalls :
         LET batch == trace[i].arg IN
         /\ \A j \in PushLookups : j < i
         /\ \A l \in DOMAIN users :
              Cardinality(LookupsOf(l)) = (IF users[l].Name = "" THEN 1 ELSE 0)
         /\ \A j \in PushLookups : trace[j].arg[1].UserLogin \in DOMAIN users
         /\ Len(batch) = Cardinality(DOMAIN users)
         /\ \A k \in 1..Len(batch) :
              LET l == batch[k].UserLogin IN
              /\ l \in DOMAIN users
              /\ batch[k] = (IF \E j \in LookupsOf(l) : trace[j].ok
                             THEN UpstreamUser(l) ELSE users[l])
         /\ syncErr = (IF trace[i].ok THEN NoError ELSE <<"WriteUsers">>)
         /\ trace[i].ok => store.users = batch

\* a run that returned nil with two users without a name: one lookup failed and
\* the stub was written, the other succeeded and the profile was written
C19_Witness ==
    /\ pc = "done"
    /\ syncErr = NoError
    /\ \E j, k \in PushLookups :
         /\ ~trace[j].ok
         /\ trace[k].ok
         /\ \E m \in 1..Len(store.users) : store.users[m] = trace[j].arg[1]
         /\ \E m \in 1..Len(store.users) :
              store.users[m] = UpstreamUser(trace[k].arg[1].UserLogin)

\* the calls of one operation made for a pull request number during the page
FetchesOf(name, number) ==
    {j \in 1..Len(prFetches) : prFetches[j].op = name /\ prFetches[j].Number = number}

\* the cache returned, for the pull request, a version with the same updated_at
HeldUpToDate(pr) ==
    /\ \E j \in FetchesOf("ReadPullRequest", pr.Number) : prFetches[j].ok
    /\ pr.Number \in DOMAIN prBefore
    /\ prBefore[pr.Number].UpdatedAt = pr.UpdatedAt

\* the positions of the batch that hold a record of a number
InBatch(number) == {m \in 1..Len(prBatch) : prBatch[m].Number = number}

\* C17: for every pull request of the page the loop is past: if the cache
\* returned a version with the same updated_at, no reviews and no files were
\* fetched for it and the batch has no record of it; otherwise its reviews and its
\* files were fetched, once each, and the batch has its converted record, once.
\* WritePullRequests is called with that batch once the page is through, and a
\* write that succeeded leaves every record whose number is not in the batch as
\* it was when the page arrived.
C17_PullRequestSkip ==
    /\ \A k \in 1..Len(prPage) :
         LET pr == prPage[k] IN
         IF k < prIdx
         THEN IF HeldUpToDate(pr)
              THEN /\ FetchesOf("fetchReviews", pr.Number) = {}
                   /\ FetchesOf("fetchFiles", pr.Number) = {}
                   /\ InBatch(pr.Number) = {}
              ELSE /\ Cardinality(FetchesOf("fetchReviews", pr.Number)) = 1
                   /\ Cardinality(FetchesOf("fetchFiles", pr.Number)) = 1
                   /\ \A j \in FetchesOf("fetchReviews", pr.Number)
                               \cup FetchesOf("fetchFiles", pr.Number) : prFetches[j].ok
                   /\ Cardinality(InBatch(pr.Number)) = 1
                   /\ \A m \in InBatch(pr.Number) :
                        prBatch[m] = ConvertPullRequest(pr, UpstreamFiles)
         ELSE InBatch(pr.Number) = {}
    /\ \A m \in 1..Len(prBatch) :
         \E k \in 1..Len(prPage) : prPage[k].Number = prBatch[m].Number
    /\ prWritten # <<>> =>
         /\ prIdx > Len(prPage)
         /\ prWritten[1] = prBatch
         /\ prErr = <<"WritePullRequests">> => prStore = prBefore
         /\ prErr # <<"WritePullRequests">> =>
              /\ DOMAIN prStore = DOMAIN prBefore \cup {prBatch[m].Number : m \in 1..Len(prBatch)}
              /\ \A n \in DOMAIN prStore :
                   IF InBatch(n) = {} THEN prStore[n] = prBefore[n]
                   ELSE \A m \in InBatch(n) : prStore[n] = prBatch[m]
    /\ prWritten = <<>> => prStore = prBefore

\* a page of two pull requests, the first with the updated_at the cache holds and
\* the second newer than the cached version: the batch written is the new state
\* of the second alone, after one fetch of its reviews and one of its files, and
\* the stored record of the first is as it was
C17_Witness ==
    /\ prPc = "fetch"
    /\ Len(prPage) = 2
    /\ prPage[1].Number = 1 /\ prPage[2].Number = 2
    /\ DOMAIN prBefore = {1, 2}
    /\ prBefore[1].UpdatedAt = prPage[1].UpdatedAt
    /\ prBefore[2].UpdatedAt < prPage[2].UpdatedAt
    /\ prWritten = <<<<ConvertPullRequest(prPage[2], UpstreamFiles)>>>>
    /\ FetchesOf("fetchReviews", 1) = {} /\ FetchesOf("fetchFiles", 1) = {}
    /\ Cardinality(FetchesOf("fetchReviews", 2)) = 1
    /\ Cardinality(FetchesOf("fetchFiles", 2)) = 1
    /\ prStore[1] = prBefore[1]
    /\ prStore[2] = ConvertPullRequest(prPage[2], UpstreamFiles)

\* the records of the slices that were made of the event at a position
RecordsAt(pos) ==
    {<<i, m>> \in EventSlices \X (1..MaxEvents) :
        m <= Len(evSlices[i]) /\ evSlices[i][m].Pos = pos}

\* the case of the switch an event type has, if any
CaseOf(type) == {i \in EventSlices : EventCases[i] = type}

\* the write calls of the page for a slice
WritesOf(i) == {w \in 1..Len(evLog) : evLog[w].op = EventWrites[i]}

\* a page of raw events has been gone through
EventsLooped ==
    evPc = "repoEvents.write" \/ (evPc \in {"repoEvents", "done"} /\ evPage # <<>>)

BookmarkOps == {"store.ReadBotActivity", "store.UpdateBotActivity"}

\* the event-log writes among the calls made for the last event
LogWritesMade ==
    {k \in 1..Len(rfCalls) : \E i \in RefresherCaseIdx : RefresherLogWrites[i] = rfCalls[k].op}

\* handling an event made no call on the BotActivity table and at most one
\* event-log write, and the log has at most one record for each delivery
AtMostOneAppend ==
    /\ \A k \in 1..Len(rfCalls) : rfCalls[k].op \notin BookmarkOps
    /\ Cardinality(LogWritesMade) <= 1
    /\ \A d \in 1..rfDelivered :
         Cardinality({m \in 1..Len(rfLog) : rfLog[m].delivery = d}) <= 1
    /\ \A m \in 1..Len(rfLog) : rfLog[m].delivery \in 1..rfDelivered
    /\ (RefresherCase(rfEvent.Type) = 0 \/ rfEvent.Repo \notin rfRepos) => rfCalls = <<>>

\* C20: whatever the kind of a webhook event, handling it makes no call on the
\* BotActivity table and leaves every field of every row of it as it was, and
\* leads to at most one append to the event log.
C20_RefresherLeavesBookmarks ==
    /\ []AtMostOneAppend
    /\ [][botActivity' = botActivity]_vars

\* two events of a monitored repository were handled next to a row whose
\* bookmarks are set: each has its one record in the event log
C20_Witness ==
    /\ rfDelivered = 2
    /\ Len(rfLog) = 2
    /\ rfLog[1].delivery = 1 /\ rfLog[2].delivery = 2
    /\ rfLog[1].op # rfLog[2].op
    /\ rfEvent.Type = "*github.PullRequestEvent"
    /\ Len(rfCalls) = 5
    /\ \A r \in RepoKeys : botActivity[r].present /\ botActivity[r].rec = [f \in Fields |-> MaxTime]

\* the flag that gates each operation of a handler
GatedOps ==
    [handleLabels |-> Labels, handleIssues |-> Issues, handleIssueComments |-> Issues,
     handleZenHub |-> ZenHub, handlePullRequests |-> Prs,
     handlePullRequestReviewComments |-> Prs, handleRepoComments |-> RepoComments,
     handleEvents |-> Events, handleMembers |-> Members,
     maintainersOfRepo |-> Maintainers, WriteAllMaintainers |-> Maintainers,
     UpdateBotActivity |-> BitOr(Issues, Prs), handleRepo |-> RepoPassFlags]

\* the operations the flags of the run allow: the gated ones whose flag is set
AllowedOps ==
    {name \in DOMAIN GatedOps : BitAnd(flags, GatedOps[name]) # 0}

\* C21: every fetch and write of a handler is in the history only if the flag of
\* the handler is set; repositories are visited only if one of the seven flags of
\* the repository pass is set, and in a run that returned nil with one of them
\* set every repository written was visited; a run with Maintainers alone does no
\* work of the repository pass, and a run without Maintainers resolves no
\* maintainers and never calls WriteAllMaintainers.
C21_FlagGating ==
    LET allowed == AllowedOps IN
    /\ \A i \in TraceIdx : trace[i].op \in DOMAIN GatedOps => trace[i].op \in allowed
    /\ (pc = "done" /\ syncErr = NoError /\ BitAnd(flags, RepoPassFlags) # 0)
          => \A k \in 1..Len(store.repos) :
               \E i \in TraceIdx : trace[i] = Op("handleRepo", store.repos[k].OrgLogin,
                                                 store.repos[k].RepoName, TRUE)
    /\ flags = Maintainers =>
          \A i \in TraceIdx :
             trace[i].op \in {"fetchOrgs", "WriteOrgs", "WriteRepos", "maintainersOfRepo",
                              "WriteAllMaintainers", "Users.Get", "WriteUsers"}
    /\ BitAnd(flags, Maintainers) = 0 => maintainers = EmptyMap /\ store.maintainers = {}

\* a run with Maintainers alone that returned nil: the maintainers of a repository
\* were resolved and written, and no repository was visited
C21_Witness ==
    /\ pc = "done"
    /\ syncErr = NoError
    /\ flags = Maintainers
    /\ \E i \in TraceIdx : trace[i].op = "maintainersOfRepo" /\ trace[i].ok
    /\ \E i \in TraceIdx : trace[i].op = "WriteAllMaintainers" /\ trace[i].ok
    /\ \A i \in TraceIdx : trace[i].op # "handleRepo"


(***************************************************************************)
(* C22. getMaintainer: where the user of a login comes from, and who is    *)
(* registered.                                                             *)
(***************************************************************************)
ResolutionOrder == <<"registry", "cache", "upstream">>

\* the lookups of the pass that gave a user
Resolved == {i \in 1..Len(mtLookups) : ~mtLookups[i].failed}

\* C22 as stated: the sources are asked in the order registry, cache, upstream,
\* and the user of every login that was resolved, from the cache or from the
\* upstream, is in the User Registry.
C22_EveryResolvedUserRegistered ==
    \A i \in 1..Len(mtLookups) :
        /\ IsPrefix(mtLookups[i].consulted, ResolutionOrder)
        /\ i \in Resolved => mtLookups[i].login \in DOMAIN mtUsers

\* C22, amended: a login is looked up in the User Registry, then in the cache when
\* the registry has no entry, then upstream when the cache has no user, and the
\* search stops at the first source that gives a user or fails; the user is
\* registered exactly when it came from the upstream lookup, and a user the cache
\* gave is left out of the registry.
C22_ResolutionOrder ==
    \A i \in 1..Len(mtLookups) :
        LET l == mtLookups[i]
            last == l.consulted[Len(l.consulted)]
        IN /\ l.consulted # <<>>
           /\ IsPrefix(l.consulted, ResolutionOrder)
           /\ l.known <=> l.consulted = <<"registry">>
           /\ last = "cache" <=> (~l.known /\ mtCache[l.login] # "miss")
           /\ last = "upstream" <=> (~l.known /\ mtCache[l.login] = "miss")
           /\ l.failed <=> \/ last = "cache" /\ mtCache[l.login] = "err"
                           \/ last = "upstream" /\ mtUpstream[l.login] = "err"
           /\ l.registered <=> (last = "upstream" /\ ~l.failed)
           /\ l.registered => l.login \in DOMAIN mtUsers
           /\ (~l.failed /\ last = "cache") => l.login \notin DOMAIN mtUsers

\* a login of an ownership file was resolved from the cache and is in the map of
\* the pass, and the registry does not have it
C22_Witness ==
    \E i \in Resolved :
        /\ mtLookups[i].consulted = <<"registry", "cache">>
        /\ mtLookups[i].login \in DOMAIN mtMaintainers
        /\ mtLookups[i].login \notin DOMAIN mtUsers
        /\ \E j \in Resolved : mtLookups[j].registered


(***************************************************************************)
(* C23. CODEOWNERS before OWNERS.                                          *)
(***************************************************************************)
\* C23: for every repository of a pass, handleOWNERS is taken exactly when the
\* fetch of CODEOWNERS returned an error, and handleCODEOWNERS otherwise, also
\* when the body of the fetched file cannot be read; the error of the fetch is
\* not an error of the repository, whose logins are resolved from the OWNERS
\* files, and every repository of the pass is visited.
C23_CodeownersPrecedence ==
    /\ \A i \in 1..Len(mtFiles) :
          /\ mtFiles[i].handler = "handleOWNERS" <=> ~mtFiles[i].fetched
          /\ mtFiles[i].handler = "handleCODEOWNERS" <=> mtFiles[i].fetched
          /\ mtFiles[i].repo = mtRepos[i]
    /\ \A i \in 1..Len(mtLookups) :
          \E j \in 1..Len(mtFiles) : /\ mtFiles[j].repo = mtLookups[i].repo
                                     /\ ~mtFiles[j].failed
    /\ mtPc = "returned" => Len(mtFiles) = Len(mtRepos)

\* a pass over two repositories has returned: the fetch of CODEOWNERS succeeded
\* for the first, whose body could not be read, and failed for the second, whose
\* OWNERS files gave a maintainer
C23_Witness ==
    /\ mtPc = "returned"
    /\ Len(mtFiles) = 2
    /\ mtFiles[1].fetched /\ mtFiles[1].failed /\ mtFiles[1].handler = "handleCODEOWNERS"
    /\ ~mtFiles[2].fetched /\ ~mtFiles[2].failed /\ mtFiles[2].handler = "handleOWNERS"
    /\ \E i \in Resolved : mtLookups[i].repo = mtFiles[2].repo
    /\ mtMaintainers # EmptyMap


(***************************************************************************)
(* C24. A login that cannot be resolved.                                   *)
(***************************************************************************)
\* the resolved lookups of the pass: each appends one path
PathCount == LET Sum[n \in 0..Len(mtLookups)] ==
                     IF n = 0 THEN 0
                     ELSE Sum[n - 1] + (IF mtLookups[n].failed THEN 0 ELSE 1)
             IN Sum[Len(mtLookups)]

RECURSIVE TotalPaths(_, _)
TotalPaths(ms, logins) ==
    IF logins = {} THEN 0
    ELSE LET l == CHOOSE x \in logins : TRUE
         IN Len(ms[l].Paths) + TotalPaths(ms, logins \ {l})

\* C24: a login whose resolution failed (an error of the cache or of the upstream
\* lookup) is skipped alone: the loop goes on with the next login of the file, so
\* that every login of the file is looked up, every login that was resolved has
\* its path in the map, and the failed login gets no Maintainer record.
C24_FailedLoginSkippedAlone ==
    /\ \A i \in 1..Len(mtFiles) :
          LET ls == SelectSeq(mtLookups, LAMBDA l : l.repo = mtFiles[i].repo)
              rest == IF i = mtIdx /\ mtPc = "logins" THEN mtPending ELSE <<>>
          IN /\ Len(ls) + Len(rest) = Len(mtFiles[i].logins)
             /\ \A k \in 1..Len(ls) : ls[k].login = mtFiles[i].logins[k]
             /\ \A k \in 1..Len(rest) : rest[k] = mtFiles[i].logins[Len(ls) + k]
    /\ \A i \in 1..Len(mtLookups) :
          LET l == mtLookups[i]
          IN IF l.failed
             THEN /\ l.record = ""
                  /\ l.login \notin DOMAIN mtMaintainers
             ELSE /\ l.record \in DOMAIN mtMaintainers
                  /\ \E k \in 1..Len(mtMaintainers[l.record].Paths) :
                        mtMaintainers[l.record].Paths[k] = <<l.repo, "/">>
    /\ TotalPaths(mtMaintainers, DOMAIN mtMaintainers) = PathCount

\* the first login of a file of two could not be resolved and the second has its
\* path; the file of the next repository gave a path as well
C24_Witness ==
    /\ mtPc = "returned"
    /\ Len(mtLookups) >= 3
    /\ mtLookups[1].failed /\ ~mtLookups[2].failed /\ ~mtLookups[3].failed
    /\ mtLookups[1].repo = mtLookups[2].repo
    /\ mtLookups[3].repo # mtLookups[1].repo
    /\ mtLookups[1].login \notin DOMAIN mtMaintainers
    /\ mtLookups[2].login \in DOMAIN mtMaintainers


(***************************************************************************)
(* C25. The accumulation map of a pass.                                    *)
(***************************************************************************)
\* the paths the resolved lookups of the pass gave to a login, in their order
RECURSIVE PathsGiven(_, _)
PathsGiven(login, i) ==
    IF i > Len(mtLookups) THEN <<>>
    ELSE (IF mtLookups[i].record = login THEN << <<mtLookups[i].repo, "/">> >> ELSE <<>>)
         \o PathsGiven(login, i + 1)

\* C25: during and after a pass the map holds exactly one record per login the
\* pass resolved, under that login, with the login of the organization of the
\* pass; its paths are those the lookups of this pass gave to the login, in
\* order, those of different repositories in the same record; nothing of an
\* earlier pass is in the map when a pass begins.
C25_MaintainerAccumulation ==
    mtPc \in {"repos", "logins", "returned"} =>
        /\ DOMAIN mtMaintainers = {mtLookups[i].record : i \in Resolved}
        /\ \A l \in DOMAIN mtMaintainers :
              /\ mtMaintainers[l].UserLogin = l
              /\ mtMaintainers[l].OrgLogin = ConfiguredOrgs[mtOrg].Name
              /\ mtMaintainers[l].Paths = PathsGiven(l, 1)
        /\ mtLookups = <<>> => mtMaintainers = EmptyMap

\* the second pass of a run has returned: the first pass gave a login paths of two
\* repositories in one record, and the second pass holds one record for the same
\* login, with the second organization and the path of its repository only
C25_Witness ==
    /\ mtPc = "returned"
    /\ Len(mtWrites) = 2
    /\ \E m \in mtWrites[1].maintainers :
          /\ m.Paths = << <<"r1", "/">>, <<"r2", "/">> >>
          /\ m.OrgLogin = "org1"
          /\ m.UserLogin \in DOMAIN mtMaintainers
          /\ mtMaintainers[m.UserLogin].OrgLogin = "org2"
          /\ mtMaintainers[m.UserLogin].Paths = << <<"r3", "/">> >>


(***************************************************************************)
(* C26. One WriteAllMaintainers per pass.                                  *)
(***************************************************************************)
\* the passes of the run that have returned
PassesReturned == IF mtPc = "returned" THEN mtOrg ELSE mtOrg - 1

\* C26: WriteAllMaintainers has been called once for every pass that has returned
\* and for no other, in the order of the organizations; the call of a pass comes
\* when every repository has been visited and carries all the records of the
\* map, which is the empty set when the handler of every repository failed.
C26_MaintainerFlush ==
    mtPc \in {"called", "repos", "logins", "returned"} =>
        /\ Len(mtWrites) = PassesReturned
        /\ \A k \in 1..Len(mtWrites) : mtWrites[k].org = k
        /\ mtPc = "returned" =>
              /\ Len(mtFiles) = Len(mtRepos)
              /\ mtWrites[mtOrg].maintainers = {mtMaintainers[l] : l \in DOMAIN mtMaintainers}
              /\ (\A i \in 1..Len(mtFiles) : mtFiles[i].failed)
                    => mtWrites[mtOrg].maintainers = {}

\* both passes have returned: the first wrote maintainers, and the second, whose
\* only repository failed, wrote the empty set
C26_Witness ==
    /\ mtPc = "returned"
    /\ mtOrg = 2
    /\ Len(mtWrites) = 2
    /\ mtWrites[1].maintainers # {}
    /\ mtRepos = <<"r3">>
    /\ mtFiles[1].failed
    /\ mtWrites[2].maintainers = {}


(***************************************************************************)
(* C27. handleZenHub and the lookup that finds nothing.                    *)
(***************************************************************************)
\* C27: a lookup that did not succeed is the last lookup of the handler, which
\* has returned: nil when the answer was ErrNotFound, and an error naming the
\* lookup for every other error.
C27_NotFoundShortCircuit ==
    \A i \in 1..Len(zhLooked) :
        zhLooked[i] # "ok" =>
            /\ i = Len(zhLooked)
            /\ zhPc = "returned"
            /\ zhErr = IF zhLooked[i] = "ErrNotFound" THEN NoError
                       ELSE <<"GetIssueData", zhIssues[i]>>

\* the lookup of the second issue of several found nothing: the handler returned
\* nil and the remaining issues were not looked up
C27_Witness ==
    /\ zhPc = "returned"
    /\ zhErr = NoError
    /\ Len(zhLooked) = 2
    /\ zhLooked[2] = "ErrNotFound"
    /\ Len(zhIssues) > 3


(***************************************************************************)
(* C28. The pipelines obtained before a lookup finds nothing.              *)
(***************************************************************************)
\* C28 as stated: when handleZenHub has returned nil, every pipeline a lookup
\* returned is in a batch that was written.
C28_ObtainedPipelinesWritten ==
    (zhPc = "returned" /\ zhErr = NoError) =>
        \A i \in 1..Len(zhObtained) :
            \E k \in 1..Len(zhWrites) :
                /\ zhWrites[k].ok
                /\ \E j \in 1..Len(zhWrites[k].batch) : zhWrites[k].batch[j] = zhObtained[i]

(***************************************************************************)
(* C29. The batches of handleZenHub.                                       *)
(***************************************************************************)
\* every lookup and every write so far succeeded
AllSucceeded ==
    /\ \A i \in 1..Len(zhLooked) : zhLooked[i] = "ok"
    /\ \A k \in 1..Len(zhWrites) : zhWrites[k].ok
    /\ zhErr = NoError

\* C29: while every lookup and write succeeds, the k-th batch written holds the
\* pipelines of the issues (k-1)*100+1, (k-1)*100+2, ... in order, at most 100 of
\* them; a batch written inside the loop holds exactly 100, the pipelines not yet
\* written are fewer than 100, and when the handler has returned the batches are
\* N div 100 full ones and a last one with the N mod 100 remaining pipelines.
C29_ZenHubBatching ==
    (zhPc \in {"loop", "returned"} /\ AllSucceeded) =>
        /\ \A k \in 1..Len(zhWrites) :
              /\ Len(zhWrites[k].batch) <= BatchSize
              /\ \A j \in 1..Len(zhWrites[k].batch) :
                    zhWrites[k].batch[j] =
                        IssuePipeline(ZenHubRepo, zhIssues[(k - 1) * BatchSize + j])
              /\ (k < Len(zhWrites) \/ zhPc = "loop") => Len(zhWrites[k].batch) = BatchSize
        /\ zhPc = "loop" =>
              /\ Len(zhPipelines) < BatchSize
              /\ Len(zhWrites) * BatchSize + Len(zhPipelines) = zhIdx - 1
        /\ zhPc = "returned" =>
              /\ Len(zhWrites) = (Len(zhIssues) \div BatchSize) + 1
              /\ Len(zhWrites[Len(zhWrites)].batch) = Len(zhIssues) % BatchSize

\* a repository of 201 issues was handled without error: three batches, of 100,
\* 100 and 1 pipelines
C29_Witness ==
    /\ zhPc = "returned"
    /\ AllSucceeded
    /\ Len(zhIssues) = 2 * BatchSize + 1
    /\ Len(zhWrites) = 3
    /\ Len(zhWrites[1].batch) = BatchSize
    /\ Len(zhWrites[2].batch) = BatchSize
    /\ zhWrites[3].batch = <<IssuePipeline(ZenHubRepo, 2 * BatchSize + 1)>>


(***************************************************************************)
(* C30. The calls of Sync share no registry and no maintainer map.         *)
(***************************************************************************)
\* C30: the registry of a call holds only logins the call came upon itself, from
\* the empty registry it starts with, and so does its WriteUsers batch; the
\* maintainers of its map and of its WriteAllMaintainers batch have only the
\* paths the call found itself; whatever the other calls do meanwhile or did
\* before.
C30_RunIsolation ==
    \A p \in Procs :
        /\ rnPc[p] = "idle" => rnFound[p] = NothingFound /\ rnBatches[p] = NoBatches
        /\ rnPc[p] # "idle" => DOMAIN rnUsers[p] = rnFound[p].users
        /\ rnBatches[p].users # <<>> => rnBatches[p].users[1] = rnFound[p].users
        /\ \A l \in DOMAIN rnMaintainers[p] :
              \A k \in 1..Len(rnMaintainers[p][l].Paths) :
                  <<l, rnMaintainers[p][l].Paths[k]>> \in rnFound[p].paths
        /\ rnBatches[p].maintainers # <<>> =>
              \A m \in rnBatches[p].maintainers[1] :
                  \A k \in 1..Len(m.Paths) : <<m.UserLogin, m.Paths[k]>> \in rnFound[p].paths

\* one call has ended with alice alone in its WriteUsers batch and alice's path
\* of r1 in its WriteAllMaintainers batch, while the other call, still running,
\* has bob in its registry and gave alice the path of r2
C30_Witness ==
    /\ rnPc["sync"] = "done"
    /\ rnBatches["sync"].users = <<{"alice"}>>
    /\ rnBatches["sync"].maintainers # <<>>
    /\ \E m \in rnBatches["sync"].maintainers[1] :
          m.UserLogin = "alice" /\ m.Paths = << <<"r1", "/">> >>
    /\ rnPc["peer"] = "maintainers"
    /\ DOMAIN rnUsers["peer"] = {"bob"}
    /\ "alice" \in DOMAIN rnMaintainers["peer"]
    /\ rnMaintainers["peer"]["alice"].Paths = << <<"r2", "/">> >>


(***************************************************************************)
(* C31. handleActivity when the bookmark cannot be read.                   *)
(***************************************************************************)
\* C31: a pass whose ReadBotActivity failed, or found no bookmark, has the zero
\* time as its prior bookmark; its callback is called with the zero time, and its
\* update leaves a stored bookmark that is not the zero time as it is, and sets
\* a zero one to the start of the pass.
C31_UnreadBookmarkIsZero ==
    \A p \in Procs :
        LET h == ha[p] IN
        (h.pc \in {"cb", "update", "ret"} /\ (h.readFailed \/ h.entry = ZeroTime)) =>
            /\ h.priorStart = ZeroTime
            /\ \A f \in fetched : f.start = h.start => f.since = ZeroTime
            /\ (h.pc = "ret" /\ h.upd = "ok") =>
                  h.after = IF h.before = ZeroTime THEN h.start ELSE h.before
            /\ (h.pc = "ret" /\ h.upd = "failed") => h.after = h.before

\* a pass could not read the bookmark an earlier pass had stored: its callback
\* fetched from the zero time and its update left the stored bookmark alone
C31_Witness ==
    \E p \in Procs :
        /\ ha[p].pc = "ret"
        /\ ha[p].readFailed
        /\ ha[p].entry # ZeroTime
        /\ ha[p].upd = "ok"
        /\ ha[p].before # ZeroTime
        /\ ha[p].after = ha[p].before
        /\ \E f \in fetched : f.start = ha[p].start /\ f.since = ZeroTime


(***************************************************************************)
(* C32. handleOWNERS gives paths only when every file was had.             *)
(***************************************************************************)
\* C32: the map handleOWNERS was handed is changed only once every entry of the
\* tree has been gone through without error; when the commit list, the tree or
\* the download, reading or parsing of any OWNERS file fails, the map is as it
\* was handed over, with the paths of earlier repositories and no path of this
\* one.
C32_OwnersAllOrNothing ==
    /\ owMaintainers \notin {EmptyMap, OwnersPrior} =>
          /\ owPc \in {"entries", "returned"}
          /\ owIdx > Len(owTree)
    /\ owPc = "error" => owMaintainers \in {EmptyMap, OwnersPrior}
    /\ <<"frank">> \in DOMAIN owMaintainers =>
          owMaintainers[<<"frank">>] = OwnersPrior[<<"frank">>]

\* the first OWNERS file of the tree, with an approver, was downloaded and the
\* second could not be had: the map has the path of the earlier repository only
C32_Witness ==
    /\ owPc = "error"
    /\ Len(owFetched) = 2
    /\ owTree[1].file.Approvers # <<>>
    /\ owTree[1].file.Approvers[1] \notin owUnknown
    /\ owTree[1].path \in DOMAIN owFiles
    /\ owMaintainers = OwnersPrior


(***************************************************************************)
(* C33. The refresher and the review comments of pull requests.            *)
(***************************************************************************)
\* the operations among the calls made for the last event
CallsMade == {rfCalls[k].op : k \in 1..Len(rfCalls)}

\* C33 as stated: a review-comment event of a monitored repository, delivered as
\* a pointer like the events of the other kinds, has its comment written to the
\* cache and its record written to the event log.
C33_ReviewCommentHandled ==
    (/\ rfDelivered > 0
     /\ rfEvent.Type = "*github.PullRequestReviewCommentEvent"
     /\ rfEvent.Repo \in rfRepos)
        => /\ "cache.WritePullRequestReviewComments" \in CallsMade
           /\ "store.WritePullRequestReviewCommentEvents" \in CallsMade


(***************************************************************************)
(* C34. The refresher and the repositories that are not configured.        *)
(***************************************************************************)
\* C34: handling an event whose repository is not a configured one makes no call
\* at all, on the cache, the store or the upstream API, and leaves the event log
\* and the cache as they were, whatever the kind of the event.
C34_UnmonitoredIgnored ==
    [][rfEvent'.Repo \notin MonitoredRepos =>
          /\ rfCalls' = <<>>
          /\ rfLog' = rfLog
          /\ rfCache' = rfCache]_vars

\* after an event that was recorded, an issue event of a repository that is not
\* configured was handled: no call was made and the log has the one record
C34_Witness ==
    /\ rfDelivered = 2
    /\ rfEvent.Type = "*github.IssueEvent"
    /\ rfEvent.Repo \notin MonitoredRepos
    /\ rfCalls = <<>>
    /\ Len(rfLog) = 1
    /\ rfLog[1].delivery = 1
    /\ rfCache # {}


(***************************************************************************)
(* C35. The order of the writes of the refresher.                          *)
(***************************************************************************)
\* the positions of the calls of an operation made for the last event
CallsOf(names) == {k \in 1..Len(rfCalls) : rfCalls[k].op \in names}

CacheWriteOps == {RefresherCacheWrites[i] : i \in RefresherCaseIdx}

LogWriteOps == {RefresherLogWrites[i] : i \in RefresherCaseIdx}

\* C35: among the calls made for an event, the write of the entity to the cache
\* comes before the write of the event record, and the write of the users comes
\* last, after an event-record write that did not fail if one was made: when the
\* event-record write failed no users are written.  For an issue event a failed
\* cache write is the only call made.
C35_RefresherWriteOrder ==
    /\ \A l \in CallsOf(LogWriteOps) :
          /\ \E c \in CallsOf(CacheWriteOps) : c < l
          /\ ~rfCalls[l].ok => l = Len(rfCalls)
    /\ \A u \in CallsOf({"cache.WriteUsers"}) :
          /\ u = Len(rfCalls)
          /\ \A l \in CallsOf(LogWriteOps) : l < u /\ rfCalls[l].ok
          /\ \E c \in CallsOf(CacheWriteOps) : c < u
    /\ (\E l \in CallsOf(LogWriteOps) : ~rfCalls[l].ok) => CallsOf({"cache.WriteUsers"}) = {}
    /\ (rfEvent.Type = "*github.IssueEvent"
           /\ \E c \in CallsOf(CacheWriteOps) : ~rfCalls[c].ok)
          => Len(rfCalls) = 1
    /\ (CallsOf({"cache.WriteUsers"}) # {} /\ CallsOf(LogWriteOps) = {})
          => (rfEvent.Type = "*github.IssueCommentEvent"
                 /\ \E c \in CallsOf(CacheWriteOps) : ~rfCalls[c].ok)

\* a pull request event whose cache write failed: the event record was written
\* next and failed too, and no users were written
C35_Witness ==
    /\ rfEvent.Type = "*github.PullRequestEvent"
    /\ rfCalls = <<Call("PullRequests.ListFiles", TRUE),
                   Call("cache.WritePullRequests", FALSE),
                   Call("store.WritePullRequestEvents", FALSE)>>

\* the upstream add-labels calls of the handled event
AddLabelsCalls == SelectSeq(lbCalls, LAMBDA c : c.op = "Issues.AddLabelsToIssue")

\* the label names of the handled event the cache returned a record for
LabelsRead == SelectSeq(lbEvent.Labels, LAMBDA n : lbEnv.read[n] = "label")

\* a global rule or a rule of the event's repository matches the title or the
\* body and none of its absent-label patterns matches one of the labels
RuleMatchedOn(labels) ==
    LET rules == lbGlobal \o lbRepos[lbEvent.Repo]
    IN \E k \in 1..Len(rules) :
         /\ TitleMatch(rules[k], lbEvent.Title) \/ BodyMatch(rules[k], lbEvent.Body)
         /\ \A j \in 1..Len(labels) : ~LabelMatch(rules[k], labels[j])

\* what holds of every handled event, whatever the labels are that a rule's
\* absent-label patterns are held against
LabelerGated(labels) ==
    lbPc = "handled" =>
        /\ Len(AddLabelsCalls) <= 1
        /\ Len(AddLabelsCalls) = 1 =>
              /\ lbEvent.Type \in {"*github.IssueEvent", "*github.PullRequestEvent"}
              /\ lbEvent.Action \in {"opened", "review_requested"}
              /\ lbEvent.Repo \in DOMAIN lbRepos
              /\ \A j \in 1..Len(lbEvent.Labels) : lbEnv.read[lbEvent.Labels[j]] # "err"
              /\ RuleMatchedOn(labels)

=============================================================================
